---------------------------- MODULE Spec2Model ----------------------------
(***************************************************************************)
(* FileByte: a single-channel file-transfer server (improved_tcp_server.py) *)
(* and its interactive client (improved_tcp_client.py).                     *)
(*                                                                          *)
(* Bytes are modelled as tokens: a token stands for a run of bytes that the *)
(* model never splits ("FILE_", "START", "\r\n", one body byte "x", ...).   *)
(* A stream is a sequence of tokens, a recv chunk is a prefix of the bytes  *)
(* in flight, so a sentinel can straddle two chunks at every token border.  *)
(***************************************************************************)
EXTENDS Naturals, Sequences, FiniteSets

VARIABLES
    running,      \* TCPServer.running
    clients,      \* TCPServer.clients: the connections in the registration table
    stats,        \* TCPServer.stats
    srvFiles,     \* the server working directory: name -> bytes
    srvParts,     \* the <name>.part files of the working directory
    now,          \* the clock (datetime.now()), in ticks
    acc,          \* the accept loop (main thread): position, current socket, count
    stop,         \* the thread running TCPServer.stop(): position and locals
    mon,          \* the monitor thread: position and locals
    sock,         \* per connection: the server-side socket ("none", "open", "closed")
    h,            \* per connection: the handler thread, position and locals
    sess,         \* per connection: the ClientHandler fields
    c2s,          \* per connection: bytes in flight client -> server
    s2c,          \* per connection: bytes in flight server -> client
    cl,           \* per connection: the TCPClient (driver, reader, flags, stats)
    cliFiles,     \* per connection: the client's local directory: name -> bytes
    cliParts,     \* per connection: the client's <name>.part files
    textOut,      \* per connection: the bytes handed to process_text_response
    wire,         \* per connection: everything the server wrote, tagged by writer
                  \* (history of s2c; the code has no such field)
    done          \* history: transfers that ran to their end (no such field in the code)

vars == <<running, clients, stats, srvFiles, srvParts, now, acc, stop, mon,
          sock, h, sess, c2s, s2c, cl, cliFiles, cliParts, textOut, wire, done>>

---------------------------------------------------------------------------
(* Bounds of the model *)

\* connections the accept loop may take
MaxConns == 2
\* length of the longest file body, in tokens
MaxBody == 3
\* bytes per file.read / recv of a body, standing for the code's 8192
ChunkSize == 2
\* bytes one recv may return, standing for the code's 1024 and 8192: more than a
\* whole short exchange, as 8192 is more than a response and the sentinels
RecvMax == 12
\* clock ticks the model lets pass
MaxTime == 3
\* idle ticks after which the monitor evicts, standing for the code's 300 s
IdleLimit == 1

Conns == 1..MaxConns

---------------------------------------------------------------------------
(* Bytes *)

CRLF == "\\r\\n"

\* b"FILE_START\r\n", b"FILE_END\r\n", b"READY_FOR_FILE\r\n" and the words the
\* client looks for without their line end
FILE_START_WORD == <<"FILE_", "START">>
FILE_START == <<"FILE_", "START", CRLF>>
FILE_END == <<"FILE_", "END", CRLF>>
READY_WORD == <<"READY_", "FOR_FILE">>
READY_FOR_FILE == <<"READY_", "FOR_FILE", CRLF>>

Names == {"a"}
DefaultName == "downloaded_file_ts"

\* the bytes a file body is made of: plain bytes and the pieces of the sentinels
PlainBytes == {"x", "y"}
BodyBytes == PlainBytes \cup {"FILE_", "START", "END", CRLF, "READY_", "FOR_FILE"}

RECURSIVE SeqsUpTo(_, _)
SeqsUpTo(S, n) ==
    IF n = 0 THEN {<<>>}
    ELSE LET shorter == SeqsUpTo(S, n - 1)
         IN  shorter \cup {Append(s, b) : s \in {t \in shorter : Len(t) = n - 1}, b \in S}

\* x in s (bytes.__contains__): p occurs in s as a contiguous run
Contains(s, p) ==
    \E i \in 1..(Len(s) + 1) :
        /\ i + Len(p) - 1 <= Len(s)
        /\ SubSeq(s, i, i + Len(p) - 1) = p

\* index of the first occurrence of p in s (bytes.find + 1), 0 when there is none
Find(s, p) ==
    IF Contains(s, p)
    THEN CHOOSE i \in 1..(Len(s) + 1) :
            /\ i + Len(p) - 1 <= Len(s)
            /\ SubSeq(s, i, i + Len(p) - 1) = p
            /\ \A j \in 1..(i - 1) : SubSeq(s, j, j + Len(p) - 1) # p
    ELSE 0

\* s.split(p, 1): <<before, after>> around the first occurrence, <<s>> without one
Split1(s, p) ==
    IF Contains(s, p)
    THEN <<SubSeq(s, 1, Find(s, p) - 1), SubSeq(s, Find(s, p) + Len(p), Len(s))>>
    ELSE <<s>>

Prefix(s, n) == SubSeq(s, 1, n)
Suffix(s, n) == SubSeq(s, n + 1, Len(s))
Min(a, b) == IF a <= b THEN a ELSE b

---------------------------------------------------------------------------
(* Files: a directory is a function from the names that exist to their bytes *)

FsPut(fs, n, v) == [x \in (DOMAIN fs) \cup {n} |-> IF x = n THEN v ELSE fs[x]]
FsDel(fs, n) == [x \in (DOMAIN fs) \ {n} |-> fs[x]]
NoFiles == [x \in {} |-> <<>>]

\* what kind of entry a name is: "d" a directory, "l" a link whose target is
\* gone (os.listdir returns it, os.stat and os.path.exists fail on it), "p" a
\* file that os.remove is not permitted to remove; every other name a plain file
DirNames == {"d"}
BrokenNames == {"l"}
DeniedNames == {"p"}

\* os.path.exists and os.path.isdir
Exists(fs, n) == n \in DOMAIN fs /\ n \notin BrokenNames
IsDir(fs, n) == Exists(fs, n) /\ n \in DirNames

---------------------------------------------------------------------------
(* Server: responses *)

FTP_CODES ==
    [READY |-> "220", GOODBYE |-> "221", FILE_STATUS_OK |-> "226", CMD_OK |-> "200",
     ENTERING_TRANSFER |-> "150", SYNTAX_ERROR |-> "500", SYNTAX_ERROR_PARAM |-> "501",
     NOT_IMPLEMENTED |-> "502", BAD_SEQUENCE |-> "503", FILE_UNAVAILABLE |-> "550",
     LOCAL_ERROR |-> "451"]

CodeTokens == {FTP_CODES[k] : k \in DOMAIN FTP_CODES}

\* `response[:3] in response`: the first three characters of a string occur in it
CodeInResponse(response) == Contains(response, Prefix(response, 1))

\* ClientHandler.send_response: the bytes it hands to socket.send
ResponseBytes(code_key, additional_text) ==
    LET response == <<FTP_CODES[code_key]>>
    IN  IF additional_text # <<>>
        THEN IF CodeInResponse(response)
             THEN response \o additional_text \o <<CRLF>>
             ELSE response \o <<CRLF>> \o additional_text \o <<CRLF>>
        ELSE response \o <<CRLF>>

\* the detail text of the 150 that opens a GET
GetDetail(filename) == <<"File:", filename, CRLF, "Size:">>

\* whether a socket.send on connection c raises: always on a socket this process
\* closed, possibly when the peer has closed, never otherwise
SendRaises(c) ==
    IF sock[c] # "open" THEN {TRUE}
    ELSE IF cl[c].sock = "closed" THEN {TRUE, FALSE}
    ELSE {FALSE}

RECURSIVE Flatten(_)
Flatten(ss) == IF ss = <<>> THEN <<>> ELSE Head(ss) \o Flatten(Tail(ss))

\* the bytes of `sends` (one entry per socket.send) leave on connection c
Written(c, who, sends) ==
    /\ s2c' = [s2c EXCEPT ![c] = @ \o Flatten(sends)]
    /\ wire' = [wire EXCEPT ![c] = @ \o [i \in 1..Len(sends) |-> [by |-> who, data |-> sends[i]]]]

\* send_response: a failed send is logged and swallowed
Responded(c, who, raises, sends) ==
    IF raises THEN UNCHANGED <<s2c, wire>> ELSE Written(c, who, sends)

increment_stat(st, stat_name) == [st EXCEPT ![stat_name] = @ + 1]

\* bytes.decode().strip().split(): the words of a command, line ends are white space
Words(data) == SelectSeq(data, LAMBDA t : t # CRLF)
Upper(t) ==
    CASE t = "get" -> "GET"
      [] t = "put" -> "PUT"
      [] t = "quit" -> "QUIT"
      [] t = "list" -> "LIST"
      [] t = "del" -> "DEL"
      [] t = "Quit" -> "QUIT"
      [] OTHER -> t

\* a run of bytes that is not valid UTF-8
NON_UTF8 == "\\xff"
\* data.decode('utf-8') returns: no byte run of the data is invalid UTF-8
Decodable(data) == \A i \in 1..Len(data) : data[i] # NON_UTF8

\* the lengths a recv of at most `max` bytes may return from the bytes in flight
RecvSizes(buf, max) == 1..Min(Len(buf), max)

---------------------------------------------------------------------------
(* Server: the per-client handler thread, TCPServer.handle_client *)

PartName(n) == CASE n = "a" -> "a.part" [] n = "b" -> "b.part" [] OTHER -> "other.part"

\* os.listdir(working_directory): the entries and the .part files
ListDir == DOMAIN srvFiles \cup {PartName(n) : n \in DOMAIN srvParts}

\* the `while self.running` test that follows each command
LoopTest == IF running THEN "recv" ELSE "finally"

\* send_response raises inside, and swallows it, on a socket this process closed
Swallowed(c) == sock[c] # "open"

RECURSIVE ListLines(_, _)
\* handle_list: one `TYPE SIZE DATE NAME\r\n` line per directory entry
ListLines(names, parts) ==
    IF names # {}
    THEN LET n == CHOOSE x \in names : TRUE
         IN  (IF n \in BrokenNames THEN <<>>
              ELSE <<IF n \in DirNames THEN "DIR" ELSE "FILE", n, CRLF>>)
             \o ListLines(names \ {n}, parts)
    ELSE IF parts # {}
    THEN LET n == CHOOSE x \in parts : TRUE
         IN  <<"FILE", PartName(n), CRLF>> \o ListLines(names, parts \ {n})
    ELSE <<>>

\* the response of handle_list
ListResponse ==
    IF DOMAIN srvFiles = {} /\ DOMAIN srvParts = {}
    THEN ResponseBytes("CMD_OK", <<"No files in directory">>)
    ELSE ResponseBytes("CMD_OK", ListLines(DOMAIN srvFiles, DOMAIN srvParts))

\* process_command with the unknown verb answered 500 instead of 502
CommandResponse_Unknown500(command, args) ==
    CASE command = "LIST" -> ListResponse
      [] command \in {"GET", "PUT"} ->
            IF args = <<>>
            THEN ResponseBytes("SYNTAX_ERROR_PARAM", <<"Filename required">>)
            ELSE ResponseBytes("BAD_SEQUENCE", <<"should be handled separately">>)
      [] command = "DEL" ->
            IF args = <<>>
            THEN ResponseBytes("SYNTAX_ERROR_PARAM", <<"Filename required">>)
            ELSE IF ~Exists(srvFiles, args[1])
            THEN ResponseBytes("FILE_UNAVAILABLE", <<"File not found:", args[1]>>)
            ELSE IF IsDir(srvFiles, args[1])
            THEN ResponseBytes("FILE_UNAVAILABLE", <<"Cannot delete directory:", args[1]>>)
            ELSE IF args[1] \in DeniedNames
            THEN ResponseBytes("FILE_UNAVAILABLE", <<"Permission denied:", args[1]>>)
            ELSE ResponseBytes("CMD_OK", <<"File", args[1], "deleted successfully">>)
      [] command = "STAT" -> ResponseBytes("CMD_OK", <<"Server Statistics:", CRLF>>)
      [] command = "SYST" -> ResponseBytes("CMD_OK", <<"Python FTP Server">>)
      [] command = "QUIT" -> ResponseBytes("GOODBYE", <<>>)
      [] OTHER -> ResponseBytes("SYNTAX_ERROR", <<"Command", command, "not implemented">>)

\* the response process_command sends for a command handle_client does not
\* hand to handle_get or handle_put
CommandResponse(command, args) ==
    CASE command = "LIST" -> ListResponse
      [] command \in {"GET", "PUT"} ->
            IF args = <<>>
            THEN ResponseBytes("SYNTAX_ERROR_PARAM", <<"Filename required">>)
            ELSE ResponseBytes("BAD_SEQUENCE", <<"should be handled separately">>)
      [] command = "DEL" ->
            IF args = <<>>
            THEN ResponseBytes("SYNTAX_ERROR_PARAM", <<"Filename required">>)
            ELSE IF ~Exists(srvFiles, args[1])
            THEN ResponseBytes("FILE_UNAVAILABLE", <<"File not found:", args[1]>>)
            ELSE IF IsDir(srvFiles, args[1])
            THEN ResponseBytes("FILE_UNAVAILABLE", <<"Cannot delete directory:", args[1]>>)
            ELSE IF args[1] \in DeniedNames
            THEN ResponseBytes("FILE_UNAVAILABLE", <<"Permission denied:", args[1]>>)
            ELSE ResponseBytes("CMD_OK", <<"File", args[1], "deleted successfully">>)
      [] command = "STAT" -> ResponseBytes("CMD_OK", <<"Server Statistics:", CRLF>>)
      [] command = "SYST" -> ResponseBytes("CMD_OK", <<"Python FTP Server">>)
      [] command = "QUIT" -> ResponseBytes("GOODBYE", <<>>)
      [] OTHER -> ResponseBytes("NOT_IMPLEMENTED", <<"Command", command, "not implemented">>)

\* os.remove that removes a file it has no permission for
Removable_IgnoresDenied(n) == Exists(srvFiles, n) /\ ~IsDir(srvFiles, n)

\* handle_delete: os.remove is reached and succeeds, or raises PermissionError
Removable(n) == Exists(srvFiles, n) /\ ~IsDir(srvFiles, n) /\ n \notin DeniedNames
RemoveDenied(n) == Exists(srvFiles, n) /\ ~IsDir(srvFiles, n) /\ n \in DeniedNames

\* handle_client sends the welcome before its loop
HWelcome(c) ==
    /\ h[c].pc = "start"
    /\ Responded(c, "handler", Swallowed(c), <<ResponseBytes("READY", <<"FTP Server Ready">>)>>)
    /\ h' = [h EXCEPT ![c].pc = LoopTest]
    /\ UNCHANGED <<running, clients, stats, srvFiles, srvParts, now, acc, stop, mon,
                   sock, sess, c2s, cl, cliFiles, cliParts, textOut, done>>

\* recv(1024) returns no command: it raises on a closed socket, or returns b""
\* once the client has closed and everything it sent has been read
HRecvBreak(c) ==
    /\ h[c].pc = "recv"
    /\ \/ sock[c] = "closed"
       \/ sock[c] = "open" /\ c2s[c] = <<>> /\ cl[c].sock = "closed"
    /\ h' = [h EXCEPT ![c].pc = "finally"]
    /\ UNCHANGED <<running, clients, stats, srvFiles, srvParts, now, acc, stop, mon,
                   sock, sess, c2s, s2c, cl, cliFiles, cliParts, textOut, wire, done>>

\* the command loop without the `if command == 'QUIT': break`
HRecvCmd_NoQuitBreak(c) ==
    /\ h[c].pc = "recv"
    /\ sock[c] = "open"
    /\ \E k \in RecvSizes(c2s[c], RecvMax) :
        LET data == Prefix(c2s[c], k)
            parts == Words(data)
            command == Upper(parts[1])
            args == Tail(parts)
            transfer == parts # <<>> /\ command \in {"GET", "PUT"} /\ args # <<>>
        IN  /\ Decodable(data)
            /\ c2s' = [c2s EXCEPT ![c] = Suffix(@, k)]
            /\ sess' = [sess EXCEPT ![c].last_activity = now, ![c].commands = @ + 1]
            /\ stats' = IF parts # <<>> /\ command = "DEL" /\ args # <<>> /\ RemoveDenied(args[1])
                        THEN increment_stat(increment_stat(stats, "commands_processed"), "errors")
                        ELSE increment_stat(stats, "commands_processed")
            /\ IF parts = <<>>
               THEN /\ Responded(c, "handler", Swallowed(c), <<ResponseBytes("SYNTAX_ERROR", <<>>)>>)
                    /\ h' = [h EXCEPT ![c].pc = LoopTest]
                    /\ UNCHANGED srvFiles
               ELSE IF transfer
               THEN /\ h' = [h EXCEPT ![c].pc = IF command = "GET" THEN "get" ELSE "put",
                                      ![c].filename = args[1]]
                    /\ UNCHANGED <<s2c, wire, srvFiles>>
               ELSE /\ Responded(c, "handler", Swallowed(c), <<CommandResponse(command, args)>>)
                    /\ srvFiles' = IF command = "DEL" /\ args # <<>> /\ Removable(args[1])
                                   THEN FsDel(srvFiles, args[1])
                                   ELSE srvFiles
                    /\ h' = [h EXCEPT ![c].pc = LoopTest]
    /\ UNCHANGED <<running, clients, srvParts, now, acc, stop, mon,
                   sock, cl, cliFiles, cliParts, textOut, done>>

\* one pass of the command loop: recv(1024), log_command, parse, dispatch
HRecvCmd(c) ==
    /\ h[c].pc = "recv"
    /\ sock[c] = "open"
    /\ \E k \in RecvSizes(c2s[c], RecvMax) :
        LET data == Prefix(c2s[c], k)
            parts == Words(data)
            command == Upper(parts[1])
            args == Tail(parts)
            transfer == parts # <<>> /\ command \in {"GET", "PUT"} /\ args # <<>>
        IN  /\ Decodable(data)
            /\ c2s' = [c2s EXCEPT ![c] = Suffix(@, k)]
            /\ sess' = [sess EXCEPT ![c].last_activity = now, ![c].commands = @ + 1]
            /\ stats' = IF parts # <<>> /\ command = "DEL" /\ args # <<>> /\ RemoveDenied(args[1])
                        THEN increment_stat(increment_stat(stats, "commands_processed"), "errors")
                        ELSE increment_stat(stats, "commands_processed")
            /\ IF parts = <<>>
               THEN /\ Responded(c, "handler", Swallowed(c), <<ResponseBytes("SYNTAX_ERROR", <<>>)>>)
                    /\ h' = [h EXCEPT ![c].pc = LoopTest]
                    /\ UNCHANGED srvFiles
               ELSE IF transfer
               THEN /\ h' = [h EXCEPT ![c].pc = IF command = "GET" THEN "get" ELSE "put",
                                      ![c].filename = args[1]]
                    /\ UNCHANGED <<s2c, wire, srvFiles>>
               ELSE /\ Responded(c, "handler", Swallowed(c), <<CommandResponse(command, args)>>)
                    /\ srvFiles' = IF command = "DEL" /\ args # <<>> /\ Removable(args[1])
                                   THEN FsDel(srvFiles, args[1])
                                   ELSE srvFiles
                    /\ h' = [h EXCEPT ![c].pc = IF command = "QUIT" THEN "finally" ELSE LoopTest]
    /\ UNCHANGED <<running, clients, srvParts, now, acc, stop, mon,
                   sock, cl, cliFiles, cliParts, textOut, done>>

\* a decode error that leaves the loop and is not counted
HRecvUndecodable_NoCount(c) ==
    /\ h[c].pc = "recv"
    /\ sock[c] = "open"
    /\ \E k \in RecvSizes(c2s[c], RecvMax) :
        /\ ~Decodable(Prefix(c2s[c], k))
        /\ c2s' = [c2s EXCEPT ![c] = Suffix(@, k)]
    /\ h' = [h EXCEPT ![c].pc = "finally"]
    /\ UNCHANGED <<running, clients, stats, srvFiles, srvParts, now, acc, stop, mon,
                   sock, sess, s2c, cl, cliFiles, cliParts, textOut, wire, done>>

\* recv returns bytes that data.decode('utf-8') rejects: the UnicodeDecodeError
\* reaches the `except Exception` of handle_client, which counts one error
HRecvUndecodable(c) ==
    /\ h[c].pc = "recv"
    /\ sock[c] = "open"
    /\ \E k \in RecvSizes(c2s[c], RecvMax) :
        /\ ~Decodable(Prefix(c2s[c], k))
        /\ c2s' = [c2s EXCEPT ![c] = Suffix(@, k)]
    /\ stats' = increment_stat(stats, "errors")
    /\ h' = [h EXCEPT ![c].pc = "finally"]
    /\ UNCHANGED <<running, clients, srvFiles, srvParts, now, acc, stop, mon,
                   sock, sess, s2c, cl, cliFiles, cliParts, textOut, wire, done>>

\* a finally that goes on to close the socket and leaves the table as it is
HDeregister_KeepsEntry(c) ==
    /\ h[c].pc = "finally"
    /\ h' = [h EXCEPT ![c].pc = "close"]
    /\ UNCHANGED <<running, clients, stats, srvFiles, srvParts, now, acc, stop, mon,
                   sock, sess, c2s, s2c, cl, cliFiles, cliParts, textOut, wire, done>>

\* a finally that empties the whole table
HDeregister_DropsAll(c) ==
    /\ h[c].pc = "finally"
    /\ clients' = {}
    /\ h' = [h EXCEPT ![c].pc = "close"]
    /\ UNCHANGED <<running, stats, srvFiles, srvParts, now, acc, stop, mon,
                   sock, sess, c2s, s2c, cl, cliFiles, cliParts, textOut, wire, done>>

\* the finally of handle_client: take the session out of the table
HDeregister(c) ==
    /\ h[c].pc = "finally"
    /\ clients' = clients \ {c}
    /\ h' = [h EXCEPT ![c].pc = "close"]
    /\ UNCHANGED <<running, stats, srvFiles, srvParts, now, acc, stop, mon,
                   sock, sess, c2s, s2c, cl, cliFiles, cliParts, textOut, wire, done>>

\* then close the socket; the thread ends
HClose(c) ==
    /\ h[c].pc = "close"
    /\ sock' = [sock EXCEPT ![c] = "closed"]
    /\ h' = [h EXCEPT ![c].pc = "exited"]
    /\ UNCHANGED <<running, clients, stats, srvFiles, srvParts, now, acc, stop, mon,
                   sess, c2s, s2c, cl, cliFiles, cliParts, textOut, wire, done>>

---------------------------------------------------------------------------
(* Server: TCPServer.handle_get *)

\* a finally that leaves the flag as it is
TransferOver_KeepsFlag(c, se) == se

\* the finally of handle_get and handle_put, then back to the command loop
TransferOver(c, se) == [se EXCEPT ![c].transfer_in_progress = FALSE]

\* the except branch of a transfer: log, send_response('LOCAL_ERROR'), count
LocalError(c) ==
    /\ Responded(c, "handler", Swallowed(c), <<ResponseBytes("LOCAL_ERROR", <<"Error">>)>>)
    /\ stats' = increment_stat(stats, "errors")

\* entry of handle_get up to the first file.read: set the flag, check the file,
\* send the 150 and FILE_START
HGetBegin(c) ==
    /\ h[c].pc = "get"
    /\ LET filename == h[c].filename
           started == [sess EXCEPT ![c].transfer_in_progress = TRUE,
                                   ![c].last_activity = now]
       IN  IF ~Exists(srvFiles, filename) \/ IsDir(srvFiles, filename)
           THEN /\ Responded(c, "handler", Swallowed(c),
                        <<ResponseBytes("FILE_UNAVAILABLE",
                            IF ~Exists(srvFiles, filename)
                            THEN <<"File not found:", filename>>
                            ELSE <<filename, "is a directory, not a file">>)>>)
                /\ sess' = TransferOver(c, started)
                /\ h' = [h EXCEPT ![c].pc = LoopTest]
                /\ UNCHANGED stats
           ELSE \E raises \in SendRaises(c) :
                IF raises
                THEN /\ LocalError(c)
                     /\ sess' = TransferOver(c, started)
                     /\ h' = [h EXCEPT ![c].pc = LoopTest]
                ELSE /\ Written(c, "handler",
                            <<ResponseBytes("ENTERING_TRANSFER", GetDetail(filename)), FILE_START>>)
                     /\ sess' = started
                     /\ h' = [h EXCEPT ![c].pc = "get_loop",
                                       ![c].chunk = Prefix(srvFiles[filename], Min(ChunkSize, Len(srvFiles[filename]))),
                                       ![c].rest = Suffix(srvFiles[filename], Min(ChunkSize, Len(srvFiles[filename])))]
                     /\ UNCHANGED stats
    /\ UNCHANGED <<running, clients, srvFiles, srvParts, now, acc, stop, mon,
                   sock, c2s, cl, cliFiles, cliParts, textOut, done>>

\* one pass of `while chunk and self.running`: send the chunk, read the next
HGetChunk(c) ==
    /\ h[c].pc = "get_loop"
    /\ h[c].chunk # <<>>
    /\ running
    /\ \E raises \in SendRaises(c) :
        IF raises
        THEN /\ LocalError(c)
             /\ sess' = TransferOver(c, sess)
             /\ h' = [h EXCEPT ![c].pc = LoopTest]
        ELSE /\ Written(c, "handler", <<h[c].chunk>>)
             /\ h' = [h EXCEPT ![c].chunk = Prefix(h[c].rest, Min(ChunkSize, Len(h[c].rest))),
                               ![c].rest = Suffix(h[c].rest, Min(ChunkSize, Len(h[c].rest)))]
             /\ UNCHANGED <<sess, stats>>
    /\ UNCHANGED <<running, clients, srvFiles, srvParts, now, acc, stop, mon,
                   sock, c2s, cl, cliFiles, cliParts, textOut, done>>

\* a pass of the loop in which file.read raises after the chunk was sent
HGetReadError(c) ==
    /\ h[c].pc = "get_loop"
    /\ h[c].chunk # <<>>
    /\ h[c].rest # <<>>
    /\ running
    /\ sock[c] = "open"
    /\ Written(c, "handler", <<h[c].chunk, ResponseBytes("LOCAL_ERROR", <<"Error">>)>>)
    /\ stats' = increment_stat(stats, "errors")
    /\ sess' = TransferOver(c, sess)
    /\ h' = [h EXCEPT ![c].pc = LoopTest]
    /\ UNCHANGED <<running, clients, srvFiles, srvParts, now, acc, stop, mon,
                   sock, c2s, cl, cliFiles, cliParts, textOut, done>>

\* the loop is left (no chunk, or running is false): send FILE_END and count
HGetEnd(c) ==
    /\ h[c].pc = "get_loop"
    /\ h[c].chunk = <<>> \/ ~running
    /\ \E raises \in SendRaises(c) :
        IF raises
        THEN /\ LocalError(c)
             /\ UNCHANGED done
        ELSE /\ Written(c, "handler", <<FILE_END>>)
             /\ stats' = increment_stat(stats, "files_transferred")
             /\ done' = IF h[c].chunk = <<>> THEN [done EXCEPT !.gets = @ + 1] ELSE done
    /\ sess' = TransferOver(c, sess)
    /\ h' = [h EXCEPT ![c].pc = LoopTest]
    /\ UNCHANGED <<running, clients, srvFiles, srvParts, now, acc, stop, mon,
                   sock, c2s, cl, cliFiles, cliParts, textOut>>

---------------------------------------------------------------------------
(* Server: TCPServer.handle_put *)

\* a byte a file system puts where nothing was written
ZERO == "\\0"
\* file.write(chunk) through a file object whose position is `off`
WriteAt(content, off, chunk) ==
    IF chunk = <<>> THEN content
    ELSE LET last == off + Len(chunk)
             n == IF Len(content) > last THEN Len(content) ELSE last
         IN  [i \in 1..n |-> IF i > off /\ i <= last THEN chunk[i - off]
                             ELSE IF i <= Len(content) THEN content[i] ELSE ZERO]

\* the handlers after handler c has moved or removed <filename>.part: a file
\* object another handler has open on it now is the file <filename> (to =
\* "final") or a file without a name (to = "orphan"); the local variables of
\* c itself are gone when hc.pc is outside handle_put
Relink(hh, c, filename, to) ==
    [d \in Conns |->
        IF d # c /\ hh[d].filename = filename /\ hh[d].at = "part"
        THEN [hh[d] EXCEPT !.at = to]
        ELSE IF d = c /\ hh[d].pc \notin {"put_recv", "put_done"}
        THEN [hh[d] EXCEPT !.at = "none", !.off = 0]
        ELSE hh[d]]

\* the except branch of handle_put: remove the .part file, then as LocalError
PutError(c, filename) ==
    /\ srvParts' = FsDel(srvParts, filename)
    /\ LocalError(c)

\* the test of `while self.running and not file_ended`: into recv, or past the loop
PutLoopTest(file_ended) == IF running /\ ~file_ended THEN "put_recv" ELSE "put_done"

\* a handle_put that opens <name>.part before it looks for an existing <name>
HPutBegin_PartFirst(c) ==
    /\ h[c].pc = "put"
    /\ Responded(c, "handler", Swallowed(c),
           <<ResponseBytes("FILE_UNAVAILABLE", <<"File already exists:", h[c].filename>>)>>)
    /\ srvParts' = FsPut(srvParts, h[c].filename, <<>>)
    /\ sess' = [sess EXCEPT ![c].last_activity = now]
    /\ h' = [h EXCEPT ![c].pc = LoopTest]
    /\ UNCHANGED <<running, clients, stats, srvFiles, now, acc, stop, mon,
                   sock, c2s, cl, cliFiles, cliParts, textOut, done>>

\* entry of handle_put up to the open of <name>.part
HPutBegin(c) ==
    /\ h[c].pc = "put"
    /\ LET filename == h[c].filename
           started == [sess EXCEPT ![c].transfer_in_progress = TRUE,
                                   ![c].last_activity = now]
       IN  IF Exists(srvFiles, filename)
           THEN /\ Responded(c, "handler", Swallowed(c),
                        <<ResponseBytes("FILE_UNAVAILABLE", <<"File already exists:", filename>>)>>)
                /\ sess' = TransferOver(c, started)
                /\ h' = [h EXCEPT ![c].pc = LoopTest]
                /\ UNCHANGED <<stats, srvParts>>
           ELSE \E raises \in SendRaises(c) :
                IF raises
                THEN /\ PutError(c, filename)
                     /\ sess' = TransferOver(c, started)
                     /\ h' = Relink([h EXCEPT ![c].pc = LoopTest], c, filename, "orphan")
                ELSE /\ Written(c, "handler",
                            <<ResponseBytes("ENTERING_TRANSFER", <<"Ready to receive file:", filename>>),
                              READY_FOR_FILE>>)
                     /\ srvParts' = FsPut(srvParts, filename, <<>>)
                     /\ sess' = started
                     /\ h' = [h EXCEPT ![c].pc = PutLoopTest(FALSE),
                                       ![c].file_started = FALSE,
                                       ![c].file_ended = FALSE,
                                       ![c].off = 0,
                                       ![c].at = "part"]
                     /\ UNCHANGED stats
    /\ UNCHANGED <<running, clients, srvFiles, now, acc, stop, mon,
                   sock, c2s, cl, cliFiles, cliParts, textOut, done>>

\* what one received chunk does to the loop of handle_put:
\* <<file_started, file_ended, bytes written to the .part file>>
PutChunk(file_started, chunk) ==
    IF ~file_started /\ ~Contains(chunk, FILE_START)
    THEN <<FALSE, FALSE, <<>>>>
    ELSE LET body == IF file_started THEN chunk ELSE Split1(chunk, FILE_START)[2]
         IN  IF Contains(body, FILE_END)
             THEN <<TRUE, TRUE, Split1(body, FILE_END)[1]>>
             ELSE <<TRUE, FALSE, body>>

\* one pass of `while self.running and not file_ended`: the recv(8192) the
\* handler is blocked in returns, the chunk is dealt with, the loop test follows
HPutRecv(c) ==
    /\ h[c].pc = "put_recv"
    /\ sock[c] = "open"
    /\ \E k \in RecvSizes(c2s[c], RecvMax) :
        LET r == PutChunk(h[c].file_started, Prefix(c2s[c], k))
        IN  /\ c2s' = [c2s EXCEPT ![c] = Suffix(@, k)]
            /\ srvParts' = IF h[c].at = "part" /\ h[c].filename \in DOMAIN srvParts
                           THEN [srvParts EXCEPT ![h[c].filename] = WriteAt(@, h[c].off, r[3])]
                           ELSE srvParts
            /\ srvFiles' = IF h[c].at = "final" /\ h[c].filename \in DOMAIN srvFiles
                           THEN [srvFiles EXCEPT ![h[c].filename] = WriteAt(@, h[c].off, r[3])]
                           ELSE srvFiles
            /\ h' = [h EXCEPT ![c].file_started = r[1],
                              ![c].file_ended = r[2],
                              ![c].off = @ + Len(r[3]),
                              ![c].pc = PutLoopTest(r[2])]
    /\ UNCHANGED <<running, clients, stats, now, acc, stop, mon,
                   sock, sess, s2c, cl, cliFiles, cliParts, textOut, wire, done>>

\* recv returns b"": the client has closed and all it sent has been read
HPutEof(c) ==
    /\ h[c].pc = "put_recv"
    /\ sock[c] = "open"
    /\ c2s[c] = <<>>
    /\ cl[c].sock = "closed"
    /\ h' = [h EXCEPT ![c].pc = "put_done"]
    /\ UNCHANGED <<running, clients, stats, srvFiles, srvParts, now, acc, stop, mon,
                   sock, sess, c2s, s2c, cl, cliFiles, cliParts, textOut, wire, done>>

\* recv raises on a socket this process closed: the exception is re-raised
HPutRecvError(c) ==
    /\ h[c].pc = "put_recv"
    /\ sock[c] = "closed"
    /\ PutError(c, h[c].filename)
    /\ sess' = TransferOver(c, sess)
    /\ h' = Relink([h EXCEPT ![c].pc = LoopTest], c, h[c].filename, "orphan")
    /\ UNCHANGED <<running, clients, srvFiles, now, acc, stop, mon,
                   sock, c2s, cl, cliFiles, cliParts, textOut, done>>

\* a handle_put that answers 451 for an incomplete file and leaves the .part file
HPutDone_KeepsPart(c) ==
    /\ h[c].pc = "put_done"
    /\ IF h[c].file_started /\ h[c].file_ended /\ h[c].filename \in DOMAIN srvParts
       THEN /\ srvFiles' = FsPut(srvFiles, h[c].filename, srvParts[h[c].filename])
            /\ srvParts' = FsDel(srvParts, h[c].filename)
            /\ stats' = increment_stat(stats, "files_transferred")
            /\ done' = [done EXCEPT !.puts = @ + 1]
            /\ Responded(c, "handler", Swallowed(c),
                   <<ResponseBytes("FILE_STATUS_OK", <<"File", h[c].filename, "received and saved successfully">>)>>)
       ELSE /\ Responded(c, "handler", Swallowed(c),
                   <<ResponseBytes("LOCAL_ERROR", <<"File transfer interrupted or incomplete">>)>>)
            /\ UNCHANGED <<srvFiles, srvParts, stats, done>>
    /\ sess' = TransferOver(c, sess)
    /\ h' = Relink([h EXCEPT ![c].pc = LoopTest], c, h[c].filename,
                   IF h[c].file_started /\ h[c].file_ended THEN "final" ELSE "part")
    /\ UNCHANGED <<running, clients, now, acc, stop, mon,
                   sock, c2s, cl, cliFiles, cliParts, textOut>>

\* after the loop: rename and 226 for a complete file, else remove and 451
HPutDone(c) ==
    /\ h[c].pc = "put_done"
    /\ LET filename == h[c].filename
       IN  IF h[c].file_started /\ h[c].file_ended
           THEN IF filename \in DOMAIN srvParts
                THEN /\ srvFiles' = FsPut(srvFiles, filename, srvParts[filename])
                     /\ srvParts' = FsDel(srvParts, filename)
                     /\ stats' = increment_stat(stats, "files_transferred")
                     /\ done' = [done EXCEPT !.puts = @ + 1]
                     /\ Responded(c, "handler", Swallowed(c),
                            <<ResponseBytes("FILE_STATUS_OK", <<"File", filename, "received and saved successfully">>)>>)
                ELSE /\ PutError(c, filename)
                     /\ UNCHANGED <<srvFiles, done>>
           ELSE /\ srvParts' = FsDel(srvParts, filename)
                /\ Responded(c, "handler", Swallowed(c),
                       <<ResponseBytes("LOCAL_ERROR", <<"File transfer interrupted or incomplete">>)>>)
                /\ UNCHANGED <<srvFiles, stats, done>>
    /\ sess' = TransferOver(c, sess)
    /\ h' = Relink([h EXCEPT ![c].pc = LoopTest], c, h[c].filename,
                   IF h[c].file_started /\ h[c].file_ended THEN "final" ELSE "orphan")
    /\ UNCHANGED <<running, clients, now, acc, stop, mon,
                   sock, c2s, cl, cliFiles, cliParts, textOut>>

---------------------------------------------------------------------------
(* Server: accept loop, monitor, stop() and the clock *)

RECURSIVE Ascending(_)
\* list(self.clients.keys()): the connections of a set, in the order they were added
Ascending(S) ==
    IF S = {} THEN <<>>
    ELSE LET m == CHOOSE x \in S : \A y \in S : x <= y
         IN  <<m>> \o Ascending(S \ {m})

\* stop() runs in the signal handler, on the main thread: the accept loop does not
\* run while stop() does
MainThreadFree == stop.pc \in {"idle", "done"}

\* accept() returns a connection; ClientHandler(...); clients[client_socket] = it
Accept(c) ==
    /\ acc.pc = "accept"
    /\ MainThreadFree
    /\ running
    /\ stop.pc # "done"
    /\ sock[c] = "none"
    /\ cl[c].sock # "none"
    /\ sock' = [sock EXCEPT ![c] = "open"]
    /\ sess' = [sess EXCEPT ![c] = [last_activity |-> now, commands |-> 0,
                                    transfer_in_progress |-> FALSE]]
    /\ clients' = clients \cup {c}
    /\ acc' = [acc EXCEPT !.pc = "count", !.cur = c, !.n = @ + 1]
    /\ UNCHANGED <<running, stats, srvFiles, srvParts, now, stop, mon,
                   h, c2s, s2c, cl, cliFiles, cliParts, textOut, wire, done>>

\* increment_stat('connections'), then the handler thread is started
AcceptStart ==
    /\ acc.pc = "count"
    /\ MainThreadFree
    /\ stats' = increment_stat(stats, "connections")
    /\ h' = [h EXCEPT ![acc.cur].pc = "start"]
    /\ acc' = [acc EXCEPT !.pc = "accept"]
    /\ UNCHANGED <<running, clients, srvFiles, srvParts, now, stop, mon,
                   sock, sess, c2s, s2c, cl, cliFiles, cliParts, textOut, wire, done>>

\* `while self.running` of accept_connections fails
AcceptExit ==
    /\ acc.pc = "accept"
    /\ MainThreadFree
    /\ ~running
    /\ acc' = [acc EXCEPT !.pc = "done"]
    /\ UNCHANGED <<running, clients, stats, srvFiles, srvParts, now, stop, mon,
                   sock, h, sess, c2s, s2c, cl, cliFiles, cliParts, textOut, wire, done>>

\* monitor_clients: `while self.running` holds, then the copy of the keys under
\* the lock (with no client the pass is empty and the monitor sleeps again)
MonSnapshot ==
    /\ mon.pc = "top"
    /\ running
    /\ clients # {}
    /\ mon' = [mon EXCEPT !.pc = "iter", !.todo = Ascending(clients)]
    /\ UNCHANGED <<running, clients, stats, srvFiles, srvParts, now, acc, stop,
                   sock, h, sess, c2s, s2c, cl, cliFiles, cliParts, textOut, wire, done>>

\* `while self.running` of monitor_clients fails
MonExit ==
    /\ mon.pc = "top"
    /\ ~running
    /\ mon' = [mon EXCEPT !.pc = "done"]
    /\ UNCHANGED <<running, clients, stats, srvFiles, srvParts, now, acc, stop,
                   sock, h, sess, c2s, s2c, cl, cliFiles, cliParts, textOut, wire, done>>

\* the monitor's test of one client: still registered, idle too long, no transfer
Evictable(c) ==
    /\ c \in clients
    /\ now - sess[c].last_activity > IdleLimit
    /\ ~sess[c].transfer_in_progress

\* one pass of `for client_socket in clients_to_check` up to the decision
MonCheck ==
    /\ mon.pc = "iter"
    /\ LET c == Head(mon.todo)
           rest == Tail(mon.todo)
       IN  mon' = IF Evictable(c)
                  THEN [mon EXCEPT !.pc = "evict", !.cur = c, !.todo = rest]
                  ELSE [mon EXCEPT !.pc = IF rest = <<>> THEN "top" ELSE "iter", !.todo = rest]
    /\ UNCHANGED <<running, clients, stats, srvFiles, srvParts, now, acc, stop,
                   sock, h, sess, c2s, s2c, cl, cliFiles, cliParts, textOut, wire, done>>

\* the eviction: logging, then send_response('GOODBYE', "Connection timed out ...")
MonEvict ==
    /\ mon.pc = "evict"
    /\ Responded(mon.cur, "monitor", Swallowed(mon.cur),
           <<ResponseBytes("GOODBYE", <<"Connection timed out due to inactivity">>)>>)
    /\ mon' = [mon EXCEPT !.pc = "close"]
    /\ UNCHANGED <<running, clients, stats, srvFiles, srvParts, now, acc, stop,
                   sock, h, sess, c2s, cl, cliFiles, cliParts, textOut, done>>

\* client_socket.close()
MonClose ==
    /\ mon.pc = "close"
    /\ sock' = [sock EXCEPT ![mon.cur] = "closed"]
    /\ mon' = [mon EXCEPT !.pc = "dereg"]
    /\ UNCHANGED <<running, clients, stats, srvFiles, srvParts, now, acc, stop,
                   h, sess, c2s, s2c, cl, cliFiles, cliParts, textOut, wire, done>>

\* del self.clients[client_socket], under the lock
MonDeregister ==
    /\ mon.pc = "dereg"
    /\ clients' = clients \ {mon.cur}
    /\ mon' = [mon EXCEPT !.pc = IF mon.todo = <<>> THEN "top" ELSE "iter"]
    /\ UNCHANGED <<running, stats, srvFiles, srvParts, now, acc, stop,
                   sock, h, sess, c2s, s2c, cl, cliFiles, cliParts, textOut, wire, done>>

\* stop(): running = False, then the sleep
StopBegin ==
    /\ stop.pc = "idle"
    /\ running
    /\ running' = FALSE
    /\ stop' = [stop EXCEPT !.pc = "sleep"]
    /\ UNCHANGED <<clients, stats, srvFiles, srvParts, now, acc, mon,
                   sock, h, sess, c2s, s2c, cl, cliFiles, cliParts, textOut, wire, done>>

\* clients_to_close = list(self.clients.values()), under the lock
StopSnapshot ==
    /\ stop.pc = "sleep"
    /\ stop' = [stop EXCEPT !.pc = "close", !.todo = Ascending(clients)]
    /\ UNCHANGED <<running, clients, stats, srvFiles, srvParts, now, acc, mon,
                   sock, h, sess, c2s, s2c, cl, cliFiles, cliParts, textOut, wire, done>>

\* one pass of the loop of stop(): client.send_response('GOODBYE', ...)
StopSend ==
    /\ stop.pc = "close"
    /\ stop.todo # <<>>
    /\ Responded(Head(stop.todo), "stop", Swallowed(Head(stop.todo)),
           <<ResponseBytes("GOODBYE", <<"Server shutting down">>)>>)
    /\ stop' = [stop EXCEPT !.pc = "closing"]
    /\ UNCHANGED <<running, clients, stats, srvFiles, srvParts, now, acc, mon,
                   sock, h, sess, c2s, cl, cliFiles, cliParts, textOut, done>>

\* then client.socket.close()
StopClose ==
    /\ stop.pc = "closing"
    /\ sock' = [sock EXCEPT ![Head(stop.todo)] = "closed"]
    /\ stop' = [stop EXCEPT !.pc = "close", !.todo = Tail(@)]
    /\ UNCHANGED <<running, clients, stats, srvFiles, srvParts, now, acc, mon,
                   h, sess, c2s, s2c, cl, cliFiles, cliParts, textOut, wire, done>>

\* the loop is over: the server socket is closed, then `with self.stats_lock`
\* is entered for the final statistics
StopFinish ==
    /\ stop.pc = "close"
    /\ stop.todo = <<>>
    /\ stop' = [stop EXCEPT !.pc = "stats"]
    /\ UNCHANGED <<running, clients, stats, srvFiles, srvParts, now, acc, mon,
                   sock, h, sess, c2s, s2c, cl, cliFiles, cliParts, textOut, wire, done>>

\* the logging.info calls made under stats_lock return, the lock is released
\* and stop() returns
StopStats ==
    /\ stop.pc = "stats"
    /\ stop' = [stop EXCEPT !.pc = "done"]
    /\ UNCHANGED <<running, clients, stats, srvFiles, srvParts, now, acc, mon,
                   sock, h, sess, c2s, s2c, cl, cliFiles, cliParts, textOut, wire, done>>

\* time passes
Tick ==
    /\ now < MaxTime
    /\ now' = now + 1
    /\ UNCHANGED <<running, clients, stats, srvFiles, srvParts, acc, stop, mon,
                   sock, h, sess, c2s, s2c, cl, cliFiles, cliParts, textOut, wire, done>>

---------------------------------------------------------------------------
(* Client: the reader thread, TCPClient.receive_messages *)

RECURSIVE Lines(_)
\* text.split('\r\n')
Lines(data) ==
    IF Contains(data, <<CRLF>>)
    THEN <<Split1(data, <<CRLF>>)[1]>> \o Lines(Split1(data, <<CRLF>>)[2])
    ELSE <<data>>

RECURSIVE ScanLines(_, _)
\* the loop over the lines: a line that starts with "File:" sets file_name
ScanLines(lines, file_name) ==
    IF lines = <<>> THEN file_name
    ELSE LET line == Head(lines)
         IN  ScanLines(Tail(lines),
                 IF line # <<>> /\ line[1] = "File:"
                 THEN (IF Len(line) >= 2 THEN line[2] ELSE "")
                 ELSE file_name)

\* the reader's outcome of one chunk: the client record, its .part files, its
\* files, and the bytes handed to process_text_response
Outcome(r, parts, files, text) == [cl |-> r, parts |-> parts, files |-> files, text |-> text]

\* FILE_END found in `chunk` while file `name` is open: write what precedes it,
\* close, remove an existing <name>, rename, count, text after it to the formatter
DownloadEnds(r, name, parts, files, chunk) ==
    LET end_parts == Split1(chunk, FILE_END)
        written == [parts EXCEPT ![name] = @ \o end_parts[1]]
    IN  Outcome([r EXCEPT !.file_download = FALSE, !.current_file = FALSE,
                          !.file_name = name, !.files_transferred = @ + 1],
                FsDel(written, name),
                FsPut(files, name, written[name]),
                end_parts[2])

\* current_file.write(chunk)
DownloadGoesOn(r, name, parts, files, chunk) ==
    Outcome([r EXCEPT !.file_download = TRUE, !.current_file = TRUE, !.file_name = name],
            [parts EXCEPT ![name] = @ \o chunk], files, <<>>)

\* the body of the loop of receive_messages for one received chunk `data`
ReaderChunk(r, parts, files, data) ==
    IF Contains(data, READY_WORD)
    THEN Outcome([r EXCEPT !.file_transfer_mode = TRUE, !.file_transfer_data = data],
                 parts, files, <<>>)
    ELSE IF Contains(data, FILE_START_WORD) /\ ~r.file_download
    THEN LET found == ScanLines(Lines(data), r.file_name)
             name == IF found = "" THEN DefaultName ELSE found
             opened == FsPut(parts, name, <<>>)
             file_data == Split1(data, FILE_START)
         IN  IF Len(file_data) > 1
             THEN IF Contains(file_data[2], FILE_END)
                  THEN DownloadEnds(r, name, opened, files, file_data[2])
                  ELSE DownloadGoesOn(r, name, opened, files, file_data[2])
             ELSE DownloadGoesOn(r, name, opened, files, <<>>)
    ELSE IF r.file_download /\ r.current_file
    THEN IF Contains(data, FILE_END)
         THEN DownloadEnds(r, r.file_name, parts, files, data)
         ELSE DownloadGoesOn(r, r.file_name, parts, files, data)
    ELSE Outcome(r, parts, files, data)

\* one pass of the reader's loop with data: recv(8192) and the chunk
RRecv(c) ==
    /\ cl[c].rpc = "run"
    /\ cl[c].running
    /\ cl[c].sock = "open"
    /\ \E k \in RecvSizes(s2c[c], RecvMax) :
        LET o == ReaderChunk(cl[c], cliParts[c], cliFiles[c], Prefix(s2c[c], k))
        IN  /\ s2c' = [s2c EXCEPT ![c] = Suffix(@, k)]
            /\ cl' = [cl EXCEPT ![c] = o.cl]
            /\ cliParts' = [cliParts EXCEPT ![c] = o.parts]
            /\ cliFiles' = [cliFiles EXCEPT ![c] = o.files]
            /\ textOut' = [textOut EXCEPT ![c] = @ \o o.text]
    /\ UNCHANGED <<running, clients, stats, srvFiles, srvParts, now, acc, stop, mon,
                   sock, h, sess, c2s, wire, done>>

\* TCPClient.disconnect, run without another thread in between; `printed`
\* counts the times the session statistics were printed
disconnect(r) ==
    IF r.running
    THEN [r EXCEPT !.running = FALSE, !.sock = "closed", !.printed = @ + 1]
    ELSE r

\* disconnect() statement by statement, for two threads that may be in it at
\* the same time. The reader: recv returned b"" and `if not self.running` of
\* disconnect() found running true
RDisconnectTest(c) ==
    /\ cl[c].rpc = "run"
    /\ cl[c].running
    /\ cl[c].sock = "open"
    /\ s2c[c] = <<>>
    /\ sock[c] = "closed"
    /\ cl' = [cl EXCEPT ![c].rpc = "disc"]
    /\ UNCHANGED <<running, clients, stats, srvFiles, srvParts, now, acc, stop, mon,
                   sock, h, sess, c2s, s2c, cliFiles, cliParts, textOut, wire, done>>

\* the reader: the rest of disconnect(), then break
RDisconnectAct(c) ==
    /\ cl[c].rpc = "disc"
    /\ cl' = [cl EXCEPT ![c].running = FALSE, ![c].sock = "closed",
                        ![c].printed = @ + 1, ![c].rpc = "done"]
    /\ UNCHANGED <<running, clients, stats, srvFiles, srvParts, now, acc, stop, mon,
                   sock, h, sess, c2s, s2c, cliFiles, cliParts, textOut, wire, done>>

\* recv returns b"": the server has closed and all it sent has been read.
\* disconnect(), break; an open download file is left as it is
REof(c) ==
    /\ cl[c].rpc = "run"
    /\ cl[c].running
    /\ cl[c].sock = "open"
    /\ s2c[c] = <<>>
    /\ sock[c] = "closed"
    /\ cl' = [cl EXCEPT ![c] = [disconnect(@) EXCEPT !.rpc = "done"]]
    /\ UNCHANGED <<running, clients, stats, srvFiles, srvParts, now, acc, stop, mon,
                   sock, h, sess, c2s, s2c, cliFiles, cliParts, textOut, wire, done>>

\* socket.timeout during a download with no activity for 10 s: give the file up
RTimeout(c) ==
    /\ cl[c].rpc = "run"
    /\ cl[c].running
    /\ cl[c].sock = "open"
    /\ s2c[c] = <<>>
    /\ cl[c].file_download /\ cl[c].current_file
    /\ cl' = [cl EXCEPT ![c].file_download = FALSE, ![c].current_file = FALSE,
                        ![c].errors = @ + 1]
    /\ cliParts' = [cliParts EXCEPT ![c] = FsDel(@, cl[c].file_name)]
    /\ UNCHANGED <<running, clients, stats, srvFiles, srvParts, now, acc, stop, mon,
                   sock, h, sess, c2s, s2c, cliFiles, textOut, wire, done>>

\* recv raises an error other than a timeout or a reset (the network is gone,
\* the connection is aborted): the generic handler counts an error, closes and
\* removes an open .part file and breaks; disconnect() is not called
RRecvError(c) ==
    /\ cl[c].rpc = "run"
    /\ cl[c].running
    /\ cl[c].sock = "open"
    /\ cl' = [cl EXCEPT ![c].rpc = "done", ![c].current_file = FALSE, ![c].errors = @ + 1]
    /\ cliParts' = [cliParts EXCEPT ![c] = IF cl[c].current_file
                                             THEN FsDel(@, cl[c].file_name) ELSE @]
    /\ UNCHANGED <<running, clients, stats, srvFiles, srvParts, now, acc, stop, mon,
                   sock, h, sess, c2s, s2c, cliFiles, textOut, wire, done>>

\* the driver has disconnected. Either the reader's loop test fails and it returns,
\* or its recv raises on the closed socket and the handler of that exception closes
\* and removes an open .part file: which one depends on where the reader was
RStop(c) ==
    /\ cl[c].rpc = "run"
    /\ ~cl[c].running
    /\ cl' = [cl EXCEPT ![c].rpc = "done", ![c].current_file = FALSE]
    /\ \E in_recv \in BOOLEAN :
        cliParts' = [cliParts EXCEPT ![c] = IF in_recv /\ cl[c].current_file
                                             THEN FsDel(@, cl[c].file_name) ELSE @]
    /\ UNCHANGED <<running, clients, stats, srvFiles, srvParts, now, acc, stop, mon,
                   sock, h, sess, c2s, s2c, cliFiles, textOut, wire, done>>

---------------------------------------------------------------------------
(* Client: the interactive driver, TCPClient.connect and handle_put_command *)

UpperLine(t) ==
    CASE t = "help" -> "HELP"
      [] t = "exit" -> "EXIT"
      [] t = "local_ls" -> "LOCAL_LS"
      [] OTHER -> Upper(t)

\* the `while self.running` test of the driver's loop
DriverLoop(r) == IF r.running THEN "prompt" ELSE "done"

\* socket.connect succeeds while the server socket listens; the reader is started
CConnect(c) ==
    /\ cl[c].pc = "init"
    /\ stop.pc # "done"
    /\ cl' = [cl EXCEPT ![c].pc = "prompt", ![c].sock = "open", ![c].running = TRUE,
                        ![c].rpc = "run"]
    /\ UNCHANGED <<running, clients, stats, srvFiles, srvParts, now, acc, stop, mon,
                   sock, h, sess, c2s, s2c, cliFiles, cliParts, textOut, wire, done>>

\* what the driver does with one input line:
\* "local" (nothing is sent), "quit", "put", "put_refused" or "send"
LineKind(c, line) ==
    LET cmd == UpperLine(line[1])
        args == Tail(line)
    IN  IF Len(line) = 1 /\ cmd = "HELP" THEN "local"
        ELSE IF Len(line) = 1 /\ cmd = "EXIT" THEN "quit"
        ELSE IF cmd \in {"LOCAL_LS", "LOCAL_PWD"} \/ (cmd = "LOCAL_CD" /\ args # <<>>) THEN "local"
        ELSE IF cmd = "PUT" /\ args # <<>>
        THEN (IF args[1] \in DOMAIN cliFiles[c] THEN "put" ELSE "put_refused")
        ELSE IF cmd = "QUIT" THEN "quit"
        ELSE "send"

\* the bytes the driver sends for the line: EXIT sends QUIT, the rest verbatim
LineBytes(line) == IF Len(line) = 1 /\ UpperLine(line[1]) = "EXIT" THEN <<"QUIT">> ELSE line

\* one input line is read and handled, up to the first wait
CCommand(c) ==
    /\ cl[c].pc = "prompt"
    /\ cl[c].todo # <<>>
    /\ LET line == Head(cl[c].todo)
           kind == LineKind(c, line)
           r == [cl[c] EXCEPT !.todo = Tail(@)]
       IN  IF kind \in {"local", "put_refused"}
           THEN /\ cl' = [cl EXCEPT ![c] = [r EXCEPT !.pc = DriverLoop(r)]]
                /\ UNCHANGED c2s
           ELSE IF r.sock # "open"
           THEN /\ cl' = [cl EXCEPT ![c] = [r EXCEPT !.errors = @ + 1, !.pc = DriverLoop(r)]]
                /\ UNCHANGED c2s
           ELSE /\ c2s' = [c2s EXCEPT ![c] = @ \o LineBytes(line)]
                /\ cl' = [cl EXCEPT ![c] =
                            [r EXCEPT !.commands_sent = @ + 1,
                                      !.upload = IF kind = "put" THEN line[2] ELSE @,
                                      !.pc = CASE kind = "put" -> "put_wait"
                                               [] kind = "quit" -> "quit_wait"
                                               [] OTHER -> DriverLoop(r)]]
    /\ UNCHANGED <<running, clients, stats, srvFiles, srvParts, now, acc, stop, mon,
                   sock, h, sess, s2c, cliFiles, cliParts, textOut, wire, done>>

\* the test handle_put_command polls for up to 10 s
ReadySeen(r) == r.file_transfer_mode /\ Contains(r.file_transfer_data, READY_WORD)

\* the poll succeeds: reset the two fields, send FILE_START, open the file
CPutReady(c) ==
    /\ cl[c].pc = "put_wait"
    /\ ReadySeen(cl[c])
    /\ LET r == [cl[c] EXCEPT !.file_transfer_data = <<>>, !.file_transfer_mode = FALSE]
       IN  IF r.sock = "open"
           THEN /\ c2s' = [c2s EXCEPT ![c] = @ \o FILE_START]
                /\ cl' = [cl EXCEPT ![c] = [r EXCEPT !.pc = "put_body",
                                                     !.rest = cliFiles[c][r.upload]]]
           ELSE /\ cl' = [cl EXCEPT ![c] = [r EXCEPT !.errors = @ + 1, !.pc = DriverLoop(r)]]
                /\ UNCHANGED c2s
    /\ UNCHANGED <<running, clients, stats, srvFiles, srvParts, now, acc, stop, mon,
                   sock, h, sess, s2c, cliFiles, cliParts, textOut, wire, done>>

\* the 10 s pass without the ready indication: "Server not ready", return
CPutTimeout(c) ==
    /\ cl[c].pc = "put_wait"
    /\ ~ReadySeen(cl[c])
    /\ cl' = [cl EXCEPT ![c].pc = DriverLoop(cl[c])]
    /\ UNCHANGED <<running, clients, stats, srvFiles, srvParts, now, acc, stop, mon,
                   sock, h, sess, c2s, s2c, cliFiles, cliParts, textOut, wire, done>>

\* one pass of `while chunk`: send file.read(8192)
CPutChunk(c) ==
    /\ cl[c].pc = "put_body"
    /\ cl[c].rest # <<>>
    /\ LET n == Min(ChunkSize, Len(cl[c].rest))
       IN  IF cl[c].sock = "open"
           THEN /\ c2s' = [c2s EXCEPT ![c] = @ \o Prefix(cl[c].rest, n)]
                /\ cl' = [cl EXCEPT ![c].rest = Suffix(@, n)]
           ELSE /\ cl' = [cl EXCEPT ![c].errors = @ + 1, ![c].pc = DriverLoop(cl[c])]
                /\ UNCHANGED c2s
    /\ UNCHANGED <<running, clients, stats, srvFiles, srvParts, now, acc, stop, mon,
                   sock, h, sess, s2c, cliFiles, cliParts, textOut, wire, done>>

\* the file is read to its end: send FILE_END, count the transfer
CPutEnd(c) ==
    /\ cl[c].pc = "put_body"
    /\ cl[c].rest = <<>>
    /\ IF cl[c].sock = "open"
       THEN /\ c2s' = [c2s EXCEPT ![c] = @ \o FILE_END]
            /\ cl' = [cl EXCEPT ![c].files_transferred = @ + 1, ![c].pc = DriverLoop(cl[c])]
       ELSE /\ cl' = [cl EXCEPT ![c].errors = @ + 1, ![c].pc = DriverLoop(cl[c])]
            /\ UNCHANGED c2s
    /\ UNCHANGED <<running, clients, stats, srvFiles, srvParts, now, acc, stop, mon,
                   sock, h, sess, s2c, cliFiles, cliParts, textOut, wire, done>>

\* after QUIT or EXIT and the short sleep: disconnect(), break
CQuit(c) ==
    /\ cl[c].pc = "quit_wait"
    /\ cl' = [cl EXCEPT ![c] = [disconnect(@) EXCEPT !.pc = "done"]]
    /\ UNCHANGED <<running, clients, stats, srvFiles, srvParts, now, acc, stop, mon,
                   sock, h, sess, c2s, s2c, cliFiles, cliParts, textOut, wire, done>>

\* the driver after QUIT and the short sleep: `if not self.running` of
\* disconnect(); when running is false disconnect() returns and the loop is left
CQuitTest(c) ==
    /\ cl[c].pc = "quit_wait"
    /\ cl' = [cl EXCEPT ![c].pc = IF cl[c].running THEN "disc" ELSE "done"]
    /\ UNCHANGED <<running, clients, stats, srvFiles, srvParts, now, acc, stop, mon,
                   sock, h, sess, c2s, s2c, cliFiles, cliParts, textOut, wire, done>>

\* the driver: the rest of disconnect(), then break
CQuitAct(c) ==
    /\ cl[c].pc = "disc"
    /\ cl' = [cl EXCEPT ![c].running = FALSE, ![c].sock = "closed",
                        ![c].printed = @ + 1, ![c].pc = "done"]
    /\ UNCHANGED <<running, clients, stats, srvFiles, srvParts, now, acc, stop, mon,
                   sock, h, sess, c2s, s2c, cliFiles, cliParts, textOut, wire, done>>

\* the client process is killed, or its host drops off the network: the
\* connection closes with whatever has been sent
CAbort(c) ==
    /\ cl[c].sock = "open"
    /\ cl[c].pc \in {"put_wait", "put_body"}
    /\ cl' = [cl EXCEPT ![c].sock = "closed", ![c].running = FALSE,
                        ![c].pc = "done", ![c].rpc = "done"]
    /\ UNCHANGED <<running, clients, stats, srvFiles, srvParts, now, acc, stop, mon,
                   sock, h, sess, c2s, s2c, cliFiles, cliParts, textOut, wire, done>>

---------------------------------------------------------------------------
(* Initial states *)

\* file bodies: plain bytes of every length up to MaxBody, and bodies made of
\* pieces of the sentinels
PlainBody(n) == [i \in 1..n |-> IF i % 2 = 1 THEN "x" ELSE "y"]
TrickyBodies ==
    {<<"FILE_">>, <<"FILE_", "START", CRLF>>, <<"READY_", "FOR_FILE">>, <<CRLF, "x">>}
Bodies == {PlainBody(n) : n \in 0..MaxBody} \cup {b \in TrickyBodies : Len(b) <= MaxBody}

\* TCPClient.__init__, with the lines the user is going to type
NewClient(script) ==
    [pc |-> "init", todo |-> script, running |-> FALSE, sock |-> "none",
     file_transfer_mode |-> FALSE, file_transfer_data |-> <<>>,
     rpc |-> "none", file_download |-> FALSE, current_file |-> FALSE, file_name |-> "",
     upload |-> "", rest |-> <<>>,
     files_transferred |-> 0, errors |-> 0, commands_sent |-> 0, printed |-> 0]
\* a connection slot no client ever uses
NoClient == [NewClient(<<>>) EXCEPT !.pc = "absent"]

\* TCPServer.__init__ and start(), before any connection
InitServer ==
    /\ running = TRUE
    /\ clients = {}
    /\ stats = [connections |-> 0, commands_processed |-> 0, files_transferred |-> 0, errors |-> 0]
    /\ srvParts = NoFiles
    /\ now = 0
    /\ acc = [pc |-> "accept", cur |-> 0, n |-> 0]
    /\ stop = [pc |-> "idle", todo |-> <<>>]
    /\ mon = [pc |-> "top", todo |-> <<>>, cur |-> 0]
    /\ sock = [c \in Conns |-> "none"]
    /\ h = [c \in Conns |-> [pc |-> "none", filename |-> "", chunk |-> <<>>, rest |-> <<>>,
                             file_started |-> FALSE, file_ended |-> FALSE,
                             off |-> 0, at |-> "none"]]
    /\ sess = [c \in Conns |-> [last_activity |-> 0, commands |-> 0, transfer_in_progress |-> FALSE]]
    /\ c2s = [c \in Conns |-> <<>>]
    /\ s2c = [c \in Conns |-> <<>>]
    /\ cliParts = [c \in Conns |-> NoFiles]
    /\ textOut = [c \in Conns |-> <<>>]
    /\ wire = [c \in Conns |-> <<>>]
    /\ done = [gets |-> 0, puts |-> 0]

\* one client that downloads file "a" from a server that has it
InitGet ==
    /\ InitServer
    /\ \E body \in Bodies : srvFiles = FsPut(NoFiles, "a", body)
    /\ cl = [c \in Conns |-> IF c = 1 THEN NewClient(<<<<"GET", "a">>>>) ELSE NoClient]
    /\ cliFiles = [c \in Conns |-> NoFiles]

\* the same with a body of plain bytes
InitGetPlain ==
    /\ InitServer
    /\ \E n \in 0..MaxBody : srvFiles = FsPut(NoFiles, "a", PlainBody(n))
    /\ cl = [c \in Conns |-> IF c = 1 THEN NewClient(<<<<"GET", "a">>>>) ELSE NoClient]
    /\ cliFiles = [c \in Conns |-> NoFiles]

\* one client that uploads its file "a" to a server with an empty directory
InitPut ==
    /\ InitServer
    /\ srvFiles = NoFiles
    /\ cl = [c \in Conns |-> IF c = 1 THEN NewClient(<<<<"PUT", "a">>>>) ELSE NoClient]
    /\ \E body \in Bodies : cliFiles = [c \in Conns |-> IF c = 1 THEN FsPut(NoFiles, "a", body) ELSE NoFiles]

---------------------------------------------------------------------------
(* Next-state relations *)

\* the threads of a server that keeps running, with one client that connects
\* one client that uploads its file "a" and then downloads it
InitRoundTrip ==
    /\ InitServer
    /\ srvFiles = NoFiles
    /\ cl = [c \in Conns |-> IF c = 1 THEN NewClient(<<<<"PUT", "a">>, <<"GET", "a">>>>) ELSE NoClient]
    /\ \E body \in Bodies :
        cliFiles = [c \in Conns |-> IF c = 1 THEN FsPut(NoFiles, "a", body) ELSE NoFiles]

\* a client that downloads "a" and a client that connects and sends nothing
InitIdle ==
    /\ InitServer
    /\ srvFiles = FsPut(NoFiles, "a", PlainBody(1))
    /\ cl = [c \in Conns |-> IF c = 1 THEN NewClient(<<<<"GET", "a">>>>) ELSE NewClient(<<>>)]
    /\ cliFiles = [c \in Conns |-> NoFiles]

\* clients that connect and never send a command
InitEvict ==
    /\ InitServer
    /\ srvFiles = FsPut(NoFiles, "a", PlainBody(1))
    /\ cl = [c \in Conns |-> NewClient(<<>>)]
    /\ cliFiles = [c \in Conns |-> NoFiles]

\* one client that connects and stays silent, or uploads a one-byte file
InitStop ==
    /\ InitServer
    /\ srvFiles = NoFiles
    /\ \E script \in {<<>>, <<<<"PUT", "a">>>>} :
        cl = [c \in Conns |-> IF c = 1 THEN NewClient(script) ELSE NoClient]
    /\ cliFiles = [c \in Conns |-> IF c = 1 THEN FsPut(NoFiles, "a", PlainBody(1)) ELSE NoFiles]

\* one client whose user enters the same PUT twice
InitPutTwice ==
    /\ InitServer
    /\ srvFiles = NoFiles
    /\ cl = [c \in Conns |-> IF c = 1 THEN NewClient(<<<<"PUT", "a">>, <<"PUT", "a">>>>) ELSE NoClient]
    /\ cliFiles = [c \in Conns |-> IF c = 1 THEN FsPut(NoFiles, "a", PlainBody(1)) ELSE NoFiles]

\* one client that uploads a file whose bytes hold the end marker followed by
\* bytes which are not UTF-8
InitPutRaw ==
    /\ InitServer
    /\ srvFiles = NoFiles
    /\ cl = [c \in Conns |-> IF c = 1 THEN NewClient(<<<<"PUT", "a">>>>) ELSE NoClient]
    /\ \E body \in {FILE_END \o <<NON_UTF8>>, FILE_END \o <<"x", NON_UTF8>>} :
        cliFiles = [c \in Conns |-> IF c = 1 THEN FsPut(NoFiles, "a", body) ELSE NoFiles]

\* two clients that upload different files, one of them empty, under the same
\* new name
InitPutBoth ==
    /\ InitServer
    /\ srvFiles = NoFiles
    /\ cl = [c \in Conns |-> IF c <= 2 THEN NewClient(<<<<"PUT", "a">>>>) ELSE NoClient]
    /\ cliFiles = [c \in Conns |-> IF c = 1 THEN FsPut(NoFiles, "a", <<"x">>)
                                    ELSE FsPut(NoFiles, "a", <<>>)]

\* one client whose user enters QUIT, or a LIST and then QUIT
InitQuit ==
    /\ InitServer
    /\ srvFiles = NoFiles
    /\ \E script \in {<<<<"QUIT">>>>, <<<<"LIST">>, <<"QUIT">>>>} :
        cl = [c \in Conns |-> IF c = 1 THEN NewClient(script) ELSE NoClient]
    /\ cliFiles = [c \in Conns |-> NoFiles]

\* the lines a user may enter at the prompt that name a local verb, and a LIST
LocalLines ==
    {<<"LOCAL_LS">>, <<"local_ls", "x">>, <<"LOCAL_CD", "x">>, <<"LOCAL_CD">>,
     <<"LOCAL_PWD">>, <<"LOCAL_PWD", "x">>, <<"HELP">>, <<"help">>, <<"help", "x">>,
     <<"EXIT">>, <<"exit">>, <<"LIST">>}

\* one client whose user enters two of these lines
InitLocal ==
    /\ InitServer
    /\ srvFiles = NoFiles
    /\ \E l1 \in LocalLines, l2 \in LocalLines :
        cl = [c \in Conns |-> IF c = 1 THEN NewClient(<<l1, l2>>) ELSE NoClient]
    /\ cliFiles = [c \in Conns |-> NoFiles]

\* one client that stays silent, sends an unknown command or quits, on a server
\* that may evict it and may be stopped
InitLife ==
    /\ InitServer
    /\ srvFiles = NoFiles
    /\ \E script \in {<<>>, <<<<"FOO">>>>, <<<<"QUIT">>>>} :
        cl = [c \in Conns |-> IF c = 1 THEN NewClient(script) ELSE NoClient]
    /\ cliFiles = [c \in Conns |-> NoFiles]

\* a client whose PUT of an existing name is refused and whose process then
\* goes away, next to a client that sends a LIST
InitDrop ==
    /\ InitServer
    /\ srvFiles = FsPut(NoFiles, "a", <<"x">>)
    /\ cl = [c \in Conns |-> IF c = 1 THEN NewClient(<<<<"PUT", "a">>>>)
                             ELSE NewClient(<<<<"LIST">>>>)]
    /\ cliFiles = [c \in Conns |-> FsPut(NoFiles, "a", <<"x">>)]

\* one client that uploads a file of plain bytes; the upload may be cut short
InitPutPlain ==
    /\ InitServer
    /\ srvFiles = NoFiles
    /\ cl = [c \in Conns |-> IF c = 1 THEN NewClient(<<<<"PUT", "a">>>>) ELSE NoClient]
    /\ cliFiles = [c \in Conns |-> IF c = 1 THEN FsPut(NoFiles, "a", PlainBody(MaxBody)) ELSE NoFiles]

\* the lines a user types in the command scenarios: unknown verb, verbs without
\* their argument, missing names, each kind of entry, upload of a name
CommandLines ==
    {<<"FOO">>, <<"GET">>, <<"PUT">>, <<"DEL">>, <<"GET", "b">>, <<"GET", "d">>,
     <<"DEL", "b">>, <<"del", "a">>, <<"DEL", "d">>, <<"DEL", "p">>, <<"DEL", "l">>,
     <<"LIST">>, <<"PUT", "a">>, <<"QUIT">>, <<"Quit">>}

\* a working directory with one entry of each kind
FullDir == [n \in {"a", "d", "l", "p"} |-> IF n = "a" THEN <<"x">> ELSE <<>>]

\* one client that types two lines, on an empty or a full working directory
InitCmd ==
    /\ InitServer
    /\ srvFiles \in {NoFiles, FullDir}
    /\ \E l1 \in CommandLines, l2 \in CommandLines :
        cl = [c \in Conns |-> IF c = 1 THEN NewClient(<<l1, l2>>) ELSE NoClient]
    /\ cliFiles = [c \in Conns |-> IF c = 1 THEN FsPut(NoFiles, "a", <<"x">>) ELSE NoFiles]

Serving(c) == Accept(c) \/ AcceptStart \/ HWelcome(c) \/ HRecvCmd(c) \/ CConnect(c) \/ CCommand(c)
\* stop() and what it makes the other threads do
Stopping(c) ==
    \/ StopBegin \/ StopSnapshot \/ StopSend \/ StopClose \/ StopFinish \/ StopStats
    \/ AcceptExit \/ HRecvBreak(c) \/ HDeregister(c) \/ HClose(c) \/ REof(c)
Getting(c) == HGetBegin(c) \/ HGetChunk(c) \/ HGetReadError(c) \/ HGetEnd(c) \/ RRecv(c)
Putting(c) ==
    \/ HPutBegin(c) \/ HPutRecv(c) \/ HPutDone(c) \/ RRecv(c)
    \/ CPutReady(c) \/ CPutTimeout(c) \/ CPutChunk(c) \/ CPutEnd(c)

Monitoring ==
    \/ MonSnapshot \/ MonCheck \/ MonEvict \/ MonClose \/ MonDeregister \/ Tick
Leaving(c) == HRecvBreak(c) \/ HDeregister(c) \/ HClose(c)
NextGet == \E c \in Conns : Serving(c) \/ Getting(c)
NextGetStop == \E c \in Conns : Serving(c) \/ Getting(c) \/ Stopping(c)
NextPut == \E c \in Conns : Serving(c) \/ Putting(c)

NextRoundTrip == \E c \in Conns : Serving(c) \/ Putting(c) \/ Getting(c)
NextIdle ==
    \/ Monitoring
    \/ \E c \in Conns :
        \/ Serving(c) \/ Leaving(c)
        \/ HGetBegin(c) \/ HGetChunk(c) \/ HGetEnd(c)
NextCmd ==
    \E c \in Conns :
        \/ Serving(c) \/ Leaving(c)
        \/ HGetBegin(c) \/ HPutBegin(c) \/ HPutRecv(c)
        \/ CPutTimeout(c) \/ CQuit(c)
NextPutCut ==
    \E c \in Conns :
        \/ Serving(c) \/ Putting(c) \/ Stopping(c)
        \/ HPutEof(c) \/ HPutRecvError(c) \/ CAbort(c)
NextEvict ==
    \/ Monitoring
    \/ \E c \in Conns :
        \/ Accept(c) \/ AcceptStart \/ HWelcome(c) \/ CConnect(c)
        \/ Leaving(c) \/ RRecv(c) \/ REof(c)
NextStop ==
    \/ MonSnapshot \/ MonCheck \/ MonExit
    \/ \E c \in Conns :
        \/ Serving(c) \/ Putting(c) \/ Stopping(c)
        \/ HPutRecvError(c)
NextLocal == \E c \in Conns : Serving(c) \/ Leaving(c) \/ CQuit(c)
NextLife ==
    \/ Monitoring \/ MonExit
    \/ \E c \in Conns : Serving(c) \/ Stopping(c) \/ RRecv(c) \/ CQuit(c)
NextGetCut == \E c \in Conns : Serving(c) \/ Getting(c) \/ RRecvError(c)
NextDrop ==
    \E c \in Conns :
        \/ Serving(c) \/ Leaving(c)
        \/ HPutBegin(c) \/ CPutTimeout(c) \/ CAbort(c)
NextPutRaw ==
    \E c \in Conns :
        \/ Serving(c) \/ Putting(c)
        \/ HRecvUndecodable(c) \/ HDeregister(c) \/ HClose(c)
NextPutBoth ==
    \E c \in Conns :
        \/ Accept(c) \/ AcceptStart \/ HWelcome(c) \/ HRecvCmd(c) \/ CConnect(c) \/ CCommand(c)
        \/ HPutBegin(c) \/ HPutRecv(c) \/ HPutDone(c)
        \/ RRecv(c) \/ CPutReady(c) \/ CPutChunk(c) \/ CPutEnd(c)
NextQuit ==
    \E c \in Conns :
        \/ Serving(c) \/ HDeregister(c) \/ HClose(c) \/ RRecv(c)
        \/ RDisconnectTest(c) \/ RDisconnectAct(c) \/ CQuitTest(c) \/ CQuitAct(c)
SpecGet == InitGet /\ [][NextGet]_vars
SpecQuit == InitQuit /\ [][NextQuit]_vars
SpecPutBoth == InitPutBoth /\ [][NextPutBoth]_vars
SpecPutRaw == InitPutRaw /\ [][NextPutRaw]_vars
SpecDrop == InitDrop /\ [][NextDrop]_vars
SpecGetCut == InitGetPlain /\ [][NextGetCut]_vars
SpecLife == InitLife /\ [][NextLife]_vars
SpecLocal == InitLocal /\ [][NextLocal]_vars
SpecPutTwice == InitPutTwice /\ [][NextPut]_vars
SpecGetStop == InitGetPlain /\ [][NextGetStop]_vars
SpecPut == InitPut /\ [][NextPut]_vars
SpecRoundTrip == InitRoundTrip /\ [][NextRoundTrip]_vars
SpecIdle == InitIdle /\ [][NextIdle]_vars
SpecCmd == InitCmd /\ [][NextCmd]_vars
SpecPutCut == InitPutPlain /\ [][NextPutCut]_vars

\* recv of the handler returns b"" because the peer has closed
HRecvPeerClosed(c) == HRecvBreak(c) /\ cl[c].sock = "closed"
\* recv of the handler raises because the socket was closed before the call
\* or, where the platform interrupts a blocked recv, during it
HRecvOwnClosed(c) == HRecvBreak(c) /\ sock[c] = "closed"
\* the reader sees EOF after the handler itself has closed the connection
REofByHandler(c) == REof(c) /\ h[c].pc = "exited"

\* the threads of the server and the reader of each client keep running; a
\* recv that blocks on a socket closed by another thread is not certain to return
EvictFairness ==
    /\ WF_vars(MonSnapshot) /\ WF_vars(MonCheck) /\ WF_vars(MonEvict)
    /\ WF_vars(MonClose) /\ WF_vars(MonDeregister) /\ WF_vars(Tick)
    /\ WF_vars(AcceptStart)
    /\ \A c \in Conns :
        /\ WF_vars(Accept(c)) /\ WF_vars(HWelcome(c))
        /\ WF_vars(HRecvPeerClosed(c)) /\ WF_vars(HDeregister(c)) /\ WF_vars(HClose(c))
        /\ WF_vars(RRecv(c)) /\ WF_vars(REofByHandler(c))
SpecEvict == InitEvict /\ [][NextEvict]_vars /\ EvictFairness
\* the same with a recv that always returns once its socket has been closed
SpecEvictWoken ==
    InitEvict /\ [][NextEvict]_vars /\ EvictFairness
        /\ \A c \in Conns : WF_vars(HRecvOwnClosed(c)) /\ WF_vars(REof(c))

\* the threads of the server, stop() and the threads of a connected client keep
\* running; a recv that blocks on a socket closed by stop() is not certain to
\* return, and a user is not certain to type
StopFairness ==
    /\ WF_vars(StopBegin) /\ WF_vars(StopSnapshot) /\ WF_vars(StopSend)
    /\ WF_vars(StopClose) /\ WF_vars(StopFinish) /\ WF_vars(StopStats)
    /\ WF_vars(AcceptStart) /\ WF_vars(AcceptExit)
    /\ WF_vars(MonSnapshot) /\ WF_vars(MonCheck) /\ WF_vars(MonExit)
    /\ \A c \in Conns :
        /\ WF_vars(Accept(c)) /\ WF_vars(HWelcome(c)) /\ WF_vars(HRecvCmd(c))
        /\ WF_vars(HRecvPeerClosed(c)) /\ WF_vars(HDeregister(c)) /\ WF_vars(HClose(c))
        /\ WF_vars(HPutBegin(c)) /\ WF_vars(HPutRecv(c)) /\ WF_vars(HPutDone(c))
        /\ WF_vars(RRecv(c)) /\ WF_vars(REofByHandler(c))
        /\ WF_vars(CPutReady(c)) /\ WF_vars(CPutTimeout(c))
        /\ WF_vars(CPutChunk(c)) /\ WF_vars(CPutEnd(c))
SpecStop == InitStop /\ [][NextStop]_vars /\ StopFairness
\* the same with a recv that always returns once its socket has been closed
SpecStopWoken ==
    InitStop /\ [][NextStop]_vars /\ StopFairness
        /\ \A c \in Conns :
            WF_vars(HRecvOwnClosed(c)) /\ WF_vars(HPutRecvError(c)) /\ WF_vars(REof(c))

---------------------------------------------------------------------------
(* Properties *)

\* the handler of connection c has sent a response with this code
Replied(c, code_key) ==
    \E i \in 1..Len(wire[c]) :
        wire[c][i].by = "handler" /\ wire[c][i].data[1] = FTP_CODES[code_key]

\* C1: whenever the server has answered a PUT with 226, the file stored under the
\* name is byte for byte the client's file, the body it sent between FILE_START
\* and FILE_END, whatever the body and however recv cuts the stream.
C1_UploadIdentical ==
    \A c \in Conns :
        Replied(c, "FILE_STATUS_OK") =>
            /\ cl[c].upload \in DOMAIN srvFiles
            /\ srvFiles[cl[c].upload] = cliFiles[c][cl[c].upload]

\* the client record before the reader has read anything
FreshReader(r) ==
    [r EXCEPT !.file_download = FALSE, !.current_file = FALSE, !.file_name = "",
              !.file_transfer_mode = FALSE, !.file_transfer_data = <<>>,
              !.files_transferred = 0]

\* everything the server has written to connection c, as one unsplit stream
Stream(c) == Flatten([i \in 1..Len(wire[c]) |-> wire[c][i].data])

\* the handler of c is back in its command loop and the reader has read it all
GetSettled(c) ==
    /\ Replied(c, "ENTERING_TRANSFER")
    /\ h[c].pc = "recv"
    /\ s2c[c] = <<>>

\* C4: once the reader has read the whole output of a GET, its file name, its
\* files and the text it handed to the formatter are those the reader produces
\* when the same stream arrives unsplit, in one chunk.
C4_SplitterRobust ==
    \A c \in Conns :
        GetSettled(c) =>
            LET o == ReaderChunk(FreshReader(cl[c]), NoFiles, NoFiles, Stream(c))
            IN  /\ cl[c].file_name = o.cl.file_name
                /\ cliFiles[c] = o.files
                /\ cliParts[c] = o.parts
                /\ textOut[c] = o.text

\* the tokens of a sequence
Range(s) == {s[i] : i \in 1..Len(s)}

\* the tokens in the files and the .part files of client c
FileSink(c) ==
    UNION ({Range(cliFiles[c][n]) : n \in DOMAIN cliFiles[c]}
           \cup {Range(cliParts[c][n]) : n \in DOMAIN cliParts[c]})

\* C5: when the body of the served file is made of plain bytes only, so that a
\* byte tells whether it is body, text or sentinel: no body byte is ever handed to
\* process_text_response, and only body bytes are ever written to a file of the
\* client, for every chunking and for a GET that fails in the middle.
C5_BodyAndTextApart ==
    \A c \in Conns :
        (\A n \in DOMAIN srvFiles : Range(srvFiles[n]) \subseteq PlainBytes) =>
            /\ Range(textOut[c]) \cap PlainBytes = {}
            /\ FileSink(c) \subseteq PlainBytes

\* C9: once the reader has counted the download of GET <name>, the client has a
\* file named <name> with the contents of the server's file, and
\* files_transferred is 1 on the server and 1 on the client.
C9_BasicGet ==
    \A c \in Conns :
        (cl[c].files_transferred >= 1 /\ h[c].pc = "recv") =>
            /\ h[c].filename \in DOMAIN cliFiles[c]
            /\ cliFiles[c][h[c].filename] = srvFiles[h[c].filename]
            /\ cl[c].files_transferred = 1
            /\ stats.files_transferred = 1

\* what the server has written to c from the 150 of a GET on, send by send
GetWrites(c) ==
    LET from == {i \in 1..Len(wire[c]) : wire[c][i].data[1] = FTP_CODES.ENTERING_TRANSFER}
        first == CHOOSE i \in from : \A j \in from : i <= j
    IN  IF from = {} THEN <<>>
        ELSE [k \in 1..(Len(wire[c]) - first + 1) |-> wire[c][first + k - 1].data]

\* a text response has a line that starts with this word
HasLine(response, word) ==
    \E i \in 1..Len(Lines(response)) :
        Lines(response)[i] # <<>> /\ Lines(response)[i][1] = word

\* C10: for a GET of an existing file whose reads all succeed, the writes from
\* the 150 on are: the 150 response, whose lines after the status line include a
\* File: line and a Size: line, then FILE_START, chunks of the file of
\* 1..ChunkSize bytes each that add up to a prefix of the file, then FILE_END
\* once the whole file is out, and nothing after it (no 226).
C10_GetWriteOrder ==
    \A c \in Conns :
        LET w == GetWrites(c)
            body == srvFiles[h[c].filename]
        IN  (w # <<>> /\ ~Replied(c, "LOCAL_ERROR")) =>
                /\ HasLine(w[1], FTP_CODES.ENTERING_TRANSFER)
                /\ HasLine(w[1], "File:") /\ HasLine(w[1], "Size:")
                /\ Len(w) >= 2 /\ w[2] = FILE_START
                /\ \A i \in 3..Len(w) :
                    IF w[i] = FILE_END
                    THEN i = Len(w) /\ Flatten(SubSeq(w, 3, i - 1)) = body
                    ELSE /\ Len(w[i]) \in 1..ChunkSize
                         /\ Len(Flatten(SubSeq(w, 3, i))) <= Len(body)
                         /\ Flatten(SubSeq(w, 3, i)) = Prefix(body, Len(Flatten(SubSeq(w, 3, i))))
                /\ \A i \in 1..Len(w) : w[i][1] # FTP_CODES.FILE_STATUS_OK

\* C2: once the reader has seen FILE_END, renamed the .part file and counted the
\* download, the file it saved holds exactly the bytes of the server's file,
\* also when the server is stopped while the body is being streamed.
C2_DownloadIdentical ==
    \A c \in Conns :
        cl[c].files_transferred >= 1 =>
            /\ cl[c].file_name \in DOMAIN cliFiles[c]
            /\ cliFiles[c][cl[c].file_name] = srvFiles[h[c].filename]

\* C8: files_transferred of the server is the number of GETs whose whole body
\* went out before FILE_END plus the number of PUTs received up to FILE_END and
\* renamed; a transfer that is cut short is not counted.
C8_CountsCompleteTransfers ==
    stats.files_transferred = done.gets + done.puts

\* C3: the client uploads its file <name> with PUT and then downloads <name>
\* with GET: the file the reader saves holds the bytes of the file that was
\* uploaded, for every body without FILE_END and every chunking.
C3_RoundTrip ==
    [][\A c \in Conns :
        cliFiles'[c] # cliFiles[c] =>
            /\ cl'[c].file_name \in DOMAIN cliFiles'[c]
            /\ cliFiles'[c][cl'[c].file_name] = cliFiles[c][cl[c].upload]]_vars

\* C6: every step of the monitor that sends the timeout 221 to a session,
\* closes its socket or takes it out of the table is taken while that session's
\* transfer_in_progress is false, whatever the handler does in between.
C6_NoEvictionInTransfer ==
    [][(mon.pc \in {"evict", "close", "dereg"} /\ mon' # mon) =>
            ~sess[mon.cur].transfer_in_progress]_vars

\* C7: the table holds as many entries as connections were accepted, less the
\* handlers that have run their finally (deregistered, closing or exited).
C7_RegisteredCount ==
    Cardinality(clients) + Cardinality({c \in Conns : h[c].pc \in {"close", "exited"}}) = acc.n

\* the step of connection c's handler that runs handle_put for an existing name
PutOfExisting(c) ==
    /\ h[c].pc = "put"
    /\ h'[c].pc # "put"
    /\ Exists(srvFiles, h[c].filename)

\* C11: a PUT of a name that exists writes exactly one response, a 550 with
\* "already exists" in its text, and so no READY_FOR_FILE; it creates no .part
\* file, leaves the working directory as it is and takes the handler back to
\* its recv with transfer_in_progress false.
C11_PutOfExistingRefused ==
    [][\A c \in Conns :
        PutOfExisting(c) =>
            /\ Len(wire'[c]) = Len(wire[c]) + 1
            /\ wire'[c][Len(wire'[c])].data[1] = FTP_CODES.FILE_UNAVAILABLE
            /\ "File already exists:" \in Range(wire'[c][Len(wire'[c])].data)
            /\ srvParts' = srvParts
            /\ srvFiles' = srvFiles
            /\ h'[c].pc = "recv"
            /\ ~sess'[c].transfer_in_progress]_vars

\* a PUT of the existing "a" has been refused and the handler is in recv again
C11_Witness ==
    \E c \in Conns :
        /\ h[c].pc = "recv"
        /\ h[c].filename = "a"
        /\ "a" \in DOMAIN srvFiles
        /\ \E i \in 1..Len(wire[c]) :
            wire[c][i].data = ResponseBytes("FILE_UNAVAILABLE", <<"File already exists:", "a">>)

\* the client of c has sent FILE_START, the whole body and FILE_END
UploadSent(c) == cl[c].upload # "" /\ cl[c].files_transferred >= 1

\* C12: for a PUT of a new name the 150 is followed by READY_FOR_FILE; <name>
\* exists exactly when the 226 was sent; the 226 is sent only when both markers
\* were received, and it is sent once both markers have been received and the
\* last chunk is dealt with; <name> never holds less than the body.
C12_PutSafety ==
    \A c \in Conns :
        /\ \A i \in 1..Len(wire[c]) :
            wire[c][i].data[1] = FTP_CODES.ENTERING_TRANSFER =>
                i < Len(wire[c]) /\ wire[c][i + 1].data = READY_FOR_FILE
        /\ cl[c].upload # "" =>
            /\ Exists(srvFiles, cl[c].upload) <=> Replied(c, "FILE_STATUS_OK")
            /\ Replied(c, "FILE_STATUS_OK") => UploadSent(c)
            /\ (UploadSent(c) /\ c2s[c] = <<>> /\ h[c].pc # "put_done")
                    => Replied(c, "FILE_STATUS_OK")
            /\ Exists(srvFiles, cl[c].upload)
                    => srvFiles[cl[c].upload] = cliFiles[c][cl[c].upload]

\* the step in which connection c's handler leaves handle_put, the receive loop
\* having ended without FILE_END
PutCutShort(c) ==
    /\ h[c].pc \in {"put_recv", "put_done"}
    /\ h'[c].pc \notin {"put_recv", "put_done"}
    /\ ~h[c].file_ended

\* C13: when handle_put is left with no FILE_END received (end of stream, the
\* server stopping, recv raising), <name>.part is gone, <name> is not created,
\* transfer_in_progress is false, and a 451 is written if the socket is open.
C13_CutShortPutCleansUp ==
    [][\A c \in Conns :
        PutCutShort(c) =>
            /\ h[c].filename \notin DOMAIN srvParts'
            /\ srvFiles' = srvFiles
            /\ ~sess'[c].transfer_in_progress
            /\ IF sock[c] = "open"
               THEN /\ Len(wire'[c]) = Len(wire[c]) + 1
                    /\ wire'[c][Len(wire'[c])].data[1] = FTP_CODES.LOCAL_ERROR
               ELSE wire'[c] = wire[c]]_vars

\* an upload was cut after its FILE_START: 451 sent, no .part file, no <name>
C13_Witness ==
    \E c \in Conns :
        /\ h[c].file_started /\ ~h[c].file_ended
        /\ h[c].pc \in {"recv", "finally"}
        /\ Replied(c, "LOCAL_ERROR")
        /\ srvParts = NoFiles
        /\ ~Exists(srvFiles, h[c].filename)

\* C14: when handle_put is left because the client closed the connection after
\* FILE_START and part of the body, the server counts an error, the .part file
\* is gone, `running` stays true and every other session stays registered with
\* its socket as it was.
C14_InterruptedUpload ==
    [][\A c \in Conns :
        (PutCutShort(c) /\ h[c].file_started /\ cl[c].sock = "closed" /\ running) =>
            /\ stats'.errors = stats.errors + 1
            /\ h[c].filename \notin DOMAIN srvParts'
            /\ running'
            /\ \A d \in Conns \ {c} :
                /\ d \in clients => d \in clients'
                /\ sock'[d] = sock[d]]_vars

\* the verbs process_command knows
Verbs == {"LIST", "GET", "PUT", "DEL", "STAT", "SYST", "QUIT"}

\* the step is one pass of the command loop of c: a command is logged
CommandRead(c) == h[c].pc = "recv" /\ sess'[c].commands = sess[c].commands + 1

\* the words of the command that pass received
ReadWords(c) == Words(Prefix(c2s[c], Len(c2s[c]) - Len(c2s'[c])))

\* the step makes the handler of c write exactly one response, with this code
Answers(c, code_key) ==
    /\ Len(wire'[c]) = Len(wire[c]) + 1
    /\ wire'[c][Len(wire'[c])].by = "handler"
    /\ wire'[c][Len(wire'[c])].data[1] = FTP_CODES[code_key]

\* the handler of c has answered an earlier command with 502, 501 or 550
ErrorAnswered(c) ==
    Replied(c, "NOT_IMPLEMENTED") \/ Replied(c, "SYNTAX_ERROR_PARAM") \/ Replied(c, "FILE_UNAVAILABLE")

\* C15: a command whose verb is unknown is answered 502 and GET, PUT or DEL
\* without argument 501; a step that answers 502, 501 or 550 leaves the session
\* registered, its socket open and the handler in its recv; a LIST read after
\* such an answer gets the 200 listing.
C15_ErrorsLeaveSessionUsable ==
    [][\A c \in Conns :
        /\ (CommandRead(c) /\ ReadWords(c) # <<>> /\ Upper(ReadWords(c)[1]) \notin Verbs)
               => Answers(c, "NOT_IMPLEMENTED")
        /\ (CommandRead(c) /\ Len(ReadWords(c)) = 1
                 /\ Upper(ReadWords(c)[1]) \in {"GET", "PUT", "DEL"})
               => Answers(c, "SYNTAX_ERROR_PARAM")
        /\ (h[c].pc \in {"recv", "get", "put"}
                 /\ (Answers(c, "NOT_IMPLEMENTED") \/ Answers(c, "SYNTAX_ERROR_PARAM")
                        \/ Answers(c, "FILE_UNAVAILABLE")))
               => (c \in clients' /\ sock'[c] = "open" /\ h'[c].pc = "recv")
        /\ (CommandRead(c) /\ ErrorAnswered(c) /\ ReadWords(c) = <<"LIST">>)
               => (Answers(c, "CMD_OK") /\ wire'[c][Len(wire'[c])].data = ListResponse
                      /\ h'[c].pc = "recv")]_vars

\* the handler answered 502 and then a LIST with the listing, and waits again
C15_Witness ==
    \E c \in Conns :
        /\ c \in clients /\ sock[c] = "open" /\ h[c].pc = "recv"
        /\ \E i \in 1..Len(wire[c]) : \E j \in (i + 1)..Len(wire[c]) :
            /\ wire[c][i].data[1] = FTP_CODES.NOT_IMPLEMENTED
            /\ wire[c][j].data = ListResponse

\* C17: when the monitor sends the timeout 221 to a session, and when it closes
\* that session's socket, the session's last_activity lies more than the idle
\* limit in the past, whatever the handler did since the monitor's test.
C17_EvictsOnlyIdle ==
    [][(mon.pc \in {"evict", "close"} /\ mon' # mon) =>
            now - sess[mon.cur].last_activity > IdleLimit]_vars

\* the session of c is connected, has never been sent a command by its client
\* and has been idle for longer than the limit while the server runs
IdleTooLong(c) ==
    /\ running /\ c \in clients /\ h[c].pc = "recv" /\ sock[c] = "open"
    /\ cl[c].todo = <<>> /\ cl[c].commands_sent = 0 /\ c2s[c] = <<>>
    /\ ~sess[c].transfer_in_progress
    /\ now - sess[c].last_activity > IdleLimit

\* the monitor has written the timeout 221 to c
TimeoutSent(c) ==
    \E i \in 1..Len(wire[c]) :
        /\ wire[c][i].by = "monitor"
        /\ wire[c][i].data[1] = FTP_CODES.GOODBYE

\* C16: a session that is idle for longer than the limit is eventually sent the
\* timeout 221 and closed by the monitor, its handler ends, it is out of the
\* table and the reader of its client has seen EOF.
C16_IdleEviction ==
    \A c \in Conns :
        IdleTooLong(c) ~>
            (/\ TimeoutSent(c) /\ sock[c] = "closed"
             /\ h[c].pc = "exited" /\ c \notin clients
             /\ cl[c].rpc = "done")

\* C18: a command whose verb is QUIT in any letter case is answered 221 and
\* takes the handler out of its loop; after that 221 the handler reads and
\* answers nothing more, takes the session out of the table and then closes
\* the socket.
C18_QuitEndsSession ==
    [][\A c \in Conns :
        /\ (CommandRead(c) /\ ReadWords(c) # <<>> /\ Upper(ReadWords(c)[1]) = "QUIT")
               => (Answers(c, "GOODBYE") /\ h'[c].pc = "finally")
        /\ Replied(c, "GOODBYE")
               => /\ h[c].pc \in {"finally", "close", "exited"}
                  /\ sess'[c].commands = sess[c].commands
                  /\ wire'[c] = wire[c]
                  /\ h'[c].pc \in {"close", "exited"} => c \notin clients'
                  /\ h'[c].pc = "exited" => sock'[c] = "closed"
                  /\ h[c].pc = "finally" => sock'[c] = "open"]_vars

\* the handler has answered a QUIT and ended: deregistered, socket closed
C18_Witness ==
    \E c \in Conns :
        /\ Replied(c, "GOODBYE")
        /\ h[c].pc = "exited"
        /\ c \notin clients
        /\ sock[c] = "closed"

\* the step is the command loop of c reading `DEL n` (verb in any letter case)
DelRead(c, n) ==
    /\ CommandRead(c)
    /\ Len(ReadWords(c)) >= 2
    /\ Upper(ReadWords(c)[1]) = "DEL"
    /\ ReadWords(c)[2] = n

ListedNames(data) ==
    {data[i + 1] : i \in {k \in 1..(Len(data) - 1) : data[k] \in {"FILE", "DIR"}}}

\* C20: the names in the response to a LIST are exactly the entries of the
\* working directory at that instant.
C20_ListIsEnumeration ==
    [][\A c \in Conns :
        (CommandRead(c) /\ ReadWords(c) = <<"LIST">>) =>
            /\ Answers(c, "CMD_OK")
            /\ ListedNames(wire'[c][Len(wire'[c])].data) = ListDir]_vars

\* C21: once running is false the accept loop and the monitor end, every
\* handler that was started ends, no socket of a session is left open and the
\* table is empty.
C21_Shutdown ==
    ~running ~>
        (/\ acc.pc = "done" /\ mon.pc = "done"
         /\ \A c \in Conns : h[c].pc \in {"none", "exited"}
         /\ \A c \in Conns : sock[c] # "open"
         /\ clients = {})

\* the words that open the detail text handle_get, handle_list and handle_stat
\* pass to send_response
DetailWords == {"File:", "Size:", "FILE", "DIR", "Server Statistics:"}

\* C22: every response on the wire starts with its status line and ends with
\* CRLF, has no empty line, and when it carries detail text of GET, LIST or STAT
\* the status line ends before that text.
C22_ResponseForm ==
    \A c \in Conns : \A i \in 1..Len(wire[c]) :
        LET d == wire[c][i].data
        IN  d[1] \in CodeTokens =>
                /\ d[Len(d)] = CRLF
                /\ (Range(d) \cap DetailWords # {}) => d[2] = CRLF
                /\ \A k \in 1..(Len(d) - 1) : ~(d[k] = CRLF /\ d[k + 1] = CRLF)

\* the step in which the driver of c leaves its wait and sends FILE_START
UploadStarts(c) == cl[c].pc = "put_wait" /\ cl'[c].pc = "put_body"

\* the READY_FOR_FILE the server has written to c so far
ReadyCount(c) == Cardinality({i \in 1..Len(wire[c]) : wire[c][i].data = READY_FOR_FILE})

\* C23: when the driver starts to send an upload, the server has written a
\* READY_FOR_FILE for this PUT command (as many READY_FOR_FILE as PUT commands
\* were sent; every command of the script is a PUT); the body follows
\* FILE_START in chunks of at most ChunkSize and FILE_END comes last; a wait
\* that ends without the ready indication sends nothing and leaves
\* files_transferred as it is.
C23_PutHandshake ==
    [][\A c \in Conns :
        /\ UploadStarts(c) =>
                /\ ReadyCount(c) >= cl[c].commands_sent
                /\ c2s'[c] = c2s[c] \o FILE_START
        /\ (cl[c].pc = "put_body" /\ c2s'[c] # c2s[c] /\ Len(c2s'[c]) > Len(c2s[c])) =>
                IF cl[c].rest = <<>>
                THEN c2s'[c] = c2s[c] \o FILE_END
                ELSE /\ Len(c2s'[c]) - Len(c2s[c]) <= ChunkSize
                     /\ c2s'[c] \o cl'[c].rest = c2s[c] \o cl[c].rest
        /\ (cl[c].pc = "put_wait" /\ cl'[c].pc \notin {"put_wait", "put_body"}) =>
                /\ c2s'[c] = c2s[c]
                /\ cl'[c].files_transferred = cl[c].files_transferred]_vars

\* the step in which the driver of c deals with the line at the head of its input
LineTaken(c) ==
    /\ cl[c].pc = "prompt"
    /\ cl[c].todo # <<>>
    /\ cl'[c].todo = Tail(cl[c].todo)

\* C24: a line whose verb is LOCAL_LS, LOCAL_CD, LOCAL_PWD or HELP, in any
\* letter case, with or without arguments, writes nothing to the connection and
\* leaves commands_sent; the line EXIT writes QUIT and nothing else.
C24_LocalVerbsStayLocal ==
    [][\A c \in Conns :
        LineTaken(c) =>
            LET line == Head(cl[c].todo)
                verb == UpperLine(line[1])
            IN  /\ verb \in {"LOCAL_LS", "LOCAL_CD", "LOCAL_PWD", "HELP"} =>
                        /\ c2s'[c] = c2s[c]
                        /\ cl'[c].commands_sent = cl[c].commands_sent
                /\ (verb = "EXIT" /\ Len(line) = 1 /\ cl[c].sock = "open") =>
                        c2s'[c] = c2s[c] \o <<"QUIT">>]_vars

\* the bytes of the markers
MarkerBytes == Range(FILE_START) \cup Range(FILE_END)

\* C25: whatever the cut of the inbound stream into recv chunks, no byte of a
\* marker is written to the .part file of an upload whose body has none, and
\* once the server has read everything a complete upload sent, both markers
\* are recognised and the transfer is answered 226.
C25_MarkersAnywhere ==
    \A c \in Conns :
        cl[c].upload # "" =>
            LET name == cl[c].upload
                body == cliFiles[c][name]
            IN  /\ (name \in DOMAIN srvParts /\ Range(body) \cap MarkerBytes = {}) =>
                        Range(srvParts[name]) \cap MarkerBytes = {}
                /\ (UploadSent(c) /\ c2s[c] = <<>>) =>
                        \/ h[c].pc = "put_done" /\ h[c].file_started /\ h[c].file_ended
                        \/ Replied(c, "FILE_STATUS_OK")

\* C26: on no connection does a write of the monitor or of stop() lie between
\* the FILE_START and the FILE_END that the handler writes for a download.
C26_NoForeignWriteInDownload ==
    \A c \in Conns : \A i \in 1..Len(wire[c]) : \A j \in 1..Len(wire[c]) : \A k \in 1..Len(wire[c]) :
        ~(/\ i < j /\ j < k
          /\ wire[c][i].by = "handler" /\ wire[c][i].data = FILE_START
          /\ wire[c][j].by # "handler"
          /\ wire[c][k].by = "handler" /\ wire[c][k].data = FILE_END
          /\ \A m \in i..j : wire[c][m].data # FILE_END)

RECURSIVE SentLen(_)
\* the lengths of the writes in w, added up
SentLen(w) == IF w = <<>> THEN 0 ELSE Len(Head(w).data) + SentLen(Tail(w))

\* the session field bytes_sent: send_response and the handler's own sends add
\* the length of what they have written, in the thread that writes
bytes_sent(c) == SentLen(wire[c])

\* C27: a step of the monitor or of stop() changes no field of any session
\* (last_activity, commands, transfer_in_progress, bytes_sent).
C27_OnlyHandlerWritesSession ==
    [][(mon' # mon \/ stop' # stop) =>
            /\ sess' = sess
            /\ \A c \in Conns : bytes_sent(c)' = bytes_sent(c)]_vars

\* the thread that holds stats_lock between two steps; every other `with` of
\* the server encloses memory operations only and lies within one step
StatsLockHolder == IF stop.pc = "stats" THEN "stop" ELSE "none"

\* stop() is in a blocking call: the sleep, a send or close, the log output
StopInBlockingCall == stop.pc \in {"sleep", "close", "closing", "stats"}

\* C28: stop() holds no lock while it is in a blocking call.
C28_NoLockAcrossBlockingCall == ~(StopInBlockingCall /\ StatsLockHolder = "stop")

\* the step in which the handler thread of c is started
HandlerStarts(c) == h[c].pc = "none" /\ h'[c].pc # "none"

\* C29: a handler is started only by the accept pass that has just put its
\* session into the table, so never more handlers than insertions; the step in
\* which a handler closes its socket finds the session out of the table; and
\* once a handler has exited its session is not in the table and does not come
\* back.
C29_RegisteredAroundHandler ==
    [][\A c \in Conns :
        /\ HandlerStarts(c) => (acc.pc = "count" /\ acc.cur = c /\ acc.n >= 1)
        /\ Cardinality({d \in Conns : h[d].pc # "none"}) <= acc.n
        /\ (h[c].pc = "close" /\ h'[c].pc = "exited") =>
                (c \notin clients /\ sock[c] # "none" /\ sock'[c] = "closed")
        /\ h[c].pc = "exited" => (c \notin clients /\ c \notin clients')]_vars

\* a handler has come to its end: socket closed, session not in the table
C29_Witness ==
    \E c \in Conns :
        /\ h[c].pc = "exited"
        /\ sock[c] = "closed"
        /\ c \notin clients
        /\ acc.n >= 1

\* C30: once the reader of a client has stopped, no .part file of a download
\* is left and the reader holds no open file.
C30_ReaderCleansUp ==
    \A c \in Conns :
        cl[c].rpc = "done" => (DOMAIN cliParts[c] = {} /\ ~cl[c].current_file)

\* C31: whenever the reader of a client has ended after an error of its recv,
\* disconnect() has run: running is false and the socket is closed.
C31_ReaderEndDisconnects ==
    \A c \in Conns :
        cl[c].rpc = "done" => (~cl[c].running /\ cl[c].sock = "closed")

\* the step in which the handler of c leaves its loop because recv returned
\* b"" or raised, and the steps of its finally
EndsOnTransportError(c) ==
    \/ h[c].pc = "recv" /\ h'[c].pc = "finally" /\ sess'[c].commands = sess[c].commands
    \/ h[c].pc = "finally" /\ h'[c].pc = "close"
    \/ h[c].pc = "close" /\ h'[c].pc = "exited"

\* C32: the steps by which a handler ends after a transport error leave
\* `running` true and leave every other session's table entry, socket, fields
\* and handler as they were; at the end the session of that handler is out of
\* the table and its socket is closed.
C32_OnlyThatSessionEnds ==
    [][\A c \in Conns :
        EndsOnTransportError(c) =>
            /\ running /\ running'
            /\ \A d \in Conns \ {c} :
                /\ (d \in clients) = (d \in clients')
                /\ sock'[d] = sock[d]
                /\ sess'[d] = sess[d]
                /\ bytes_sent(d)' = bytes_sent(d)
                /\ h'[d] = h[d]
            /\ h'[c].pc = "exited" => (c \notin clients' /\ sock'[c] = "closed")]_vars

\* the handler of one session has ended on EOF while another session is live
C32_Witness ==
    \E c \in Conns : \E d \in Conns \ {c} :
        /\ h[c].pc = "exited" /\ cl[c].sock = "closed" /\ ~Replied(c, "GOODBYE")
        /\ c \notin clients /\ sock[c] = "closed"
        /\ d \in clients /\ sock[d] = "open" /\ running

\* the bytes the handler of c takes from the connection in this step
Taken(c) == Prefix(c2s[c], Len(c2s[c]) - Len(c2s'[c]))
\* the command loop of c reads bytes that do not decode
ReadsUndecodable(c) ==
    /\ h[c].pc = "recv" /\ h'[c].pc # h[c].pc
    /\ Len(c2s'[c]) < Len(c2s[c])
    /\ ~Decodable(Taken(c))

\* C33: a command read that raises (bytes that are not UTF-8) adds exactly one
\* to `errors` and nothing to the other counters, sends nothing and ends the
\* loop; the handler then only goes on to deregister the session and close the
\* socket, and the server keeps running.
C33_UnexpectedErrorEndsSession ==
    [][\A c \in Conns :
        /\ ReadsUndecodable(c) =>
            /\ stats' = increment_stat(stats, "errors")
            /\ h'[c].pc = "finally"
            /\ sess' = sess /\ wire' = wire
            /\ running /\ running'
        /\ h[c].pc = "finally" => h'[c].pc \in {"finally", "close"} /\ running'
        /\ h[c].pc = "close" => h'[c].pc \in {"close", "exited"} /\ running'
        /\ (h[c].pc \in {"finally", "close"} /\ h'[c].pc # h[c].pc) => stats' = stats
        /\ h'[c].pc = "exited" => (c \notin clients' /\ sock'[c] = "closed")]_vars

\* a handler has ended on undecodable bytes while its client is still connected
C33_Witness ==
    /\ h[1].pc = "exited" /\ cl[1].sock = "open"
    /\ stats["errors"] = 1
    /\ 1 \notin clients /\ sock[1] = "closed" /\ running

\* the positions of a handler inside handle_get and handle_put
TransferPcs == {"get_loop", "put_recv", "put_done"}

\* C34: a handler that waits for its next command has transfer_in_progress
\* false, and a handler inside handle_get or handle_put has it true: the flag
\* is set on entry and cleared on every way out.
C34_FlagOnlyDuringTransfer ==
    \A c \in Conns :
        /\ h[c].pc = "recv" => ~sess[c].transfer_in_progress
        /\ h[c].pc \in TransferPcs => sess[c].transfer_in_progress

\* a handler is back in its command loop after a transfer that was completed
C34_Witness ==
    \E c \in Conns :
        /\ h[c].pc = "recv"
        /\ stats["files_transferred"] >= 1
        /\ ~sess[c].transfer_in_progress

\* the connections whose PUT has been answered with 226
Accepted226 == {c \in Conns : Replied(c, "FILE_STATUS_OK")}

\* C35: of two clients that upload the same new name at the same time at most
\* one is answered 226; from that answer on the file stored under the name is
\* that client's body, byte for byte; and the rename that precedes a 226 never
\* lands on a name that exists.
C35_OneUploadWins ==
    [][/\ Cardinality(Accepted226') <= 1
       /\ \A c \in Accepted226' :
            /\ Exists(srvFiles', "a")
            /\ srvFiles'["a"] = cliFiles[c]["a"]
            /\ c \notin Accepted226 => ~Exists(srvFiles, "a")]_vars

\* the handler of c, inside the loop of handle_get, writes FILE_END in this step
GetEnds(c) ==
    /\ h[c].pc = "get_loop"
    /\ Len(wire'[c]) = Len(wire[c]) + 1
    /\ wire'[c][Len(wire'[c])] = [by |-> "handler", data |-> FILE_END]

\* C36: a step of handle_get that writes FILE_END, or that adds to
\* files_transferred, is taken when every byte of the file has been sent: no
\* chunk is waiting and nothing of the file is unread.
C36_EndOnlyAfterWholeBody ==
    [][\A c \in Conns :
        (GetEnds(c) \/ (h[c].pc = "get_loop"
                        /\ stats'["files_transferred"] # stats["files_transferred"])) =>
            /\ h[c].chunk = <<>>
            /\ h[c].rest = <<>>]_vars

\* a write of the handler that is a text response: it starts with a status code
IsTextResponse(w) ==
    w.by = "handler" /\ w.data # <<>> /\ w.data[1] \in {FTP_CODES[k] : k \in DOMAIN FTP_CODES}

\* C37: a text response that the handler writes after the FILE_START of a GET
\* comes after the FILE_END of that GET.
C37_NoTextInsideDownload ==
    \A c \in Conns :
        \A i, j \in 1..Len(wire[c]) :
            (i < j /\ wire[c][i].by = "handler" /\ wire[c][i].data = FILE_START
                   /\ IsTextResponse(wire[c][j])) =>
                \E k \in (i + 1)..(j - 1) : wire[c][k].data = FILE_END

\* the step in which the driver of c sends a PUT command and starts to wait
PutSent(c) == cl[c].pc = "prompt" /\ cl'[c].pc = "put_wait"

\* C38: when the driver has sent a PUT command and starts its wait, the ready
\* indication (file_transfer_mode with READY_FOR_FILE in file_transfer_data) is
\* false, so that only a READY_FOR_FILE read after the command can end the wait.
C38_ReadyClearedAtEachPut ==
    [][\A c \in Conns : PutSent(c) => ~ReadySeen(cl'[c])]_vars

\* C39: the teardown of a client runs at most once: the session statistics
\* are printed at most once, whichever threads call disconnect().
C39_TeardownOnce ==
    \A c \in Conns : cl[c].printed <= 1

===========================================================================
